---- MODULE Spec2Model ----
(***************************************************************************)
(* A model of scripts/update_bgp_data.py: the token-bucket RateLimiter     *)
(* shared by the wave workers, the path analyzer (_process_single_route,   *)
(* analyze_routes, analyze_routes_streaming) and the graph builder         *)
(* (build_viz_data).  Each subsystem has its own specification over the    *)
(* one set of variables; the variables of the other subsystems stay at     *)
(* their initial values.                                                   *)
(***************************************************************************)
EXTENDS Integers, Sequences, FiniteSets, TLC

(***************************************************************************)
(* Bounds of the model.                                                    *)
(***************************************************************************)
\* worker threads that share the limiter (the code runs CONCURRENCY = 8)
NumWorkers == 2
\* acquire() calls issued in one run
MaxCalls == 5
\* clock ticks it takes to refill one token (1/N second = TicksPerToken ticks)
TicksPerToken == 2
\* last clock tick of a run
MaxTime == 3

\* records one analysis consumes
MaxRoutes == 2
\* hops of a generated raw path
MaxPathLen == 2

\* observations behind the analysis that build_viz_data is given
MaxObservations == 3
\* international edges build_viz_data keeps (1500 in the code), scaled down
TopIntl == 1
\* domestic edges build_viz_data keeps (2000 in the code), scaled down
TopDomestic == 2

\* units (batches or ASNs) one wave loop is given
MaxUnits == 3
\* units per wave (CONCURRENCY = 8 in the code), scaled down
WaveSize == 2

\* units (ASNs or batches) a script hands to its worker pool
MaxTasks == 10

\* requests one stage of a run issues
MaxStageRequests == 2

\* the locations of a geolocation response
MaxLocations == 3

\* the deduplicated records main() saves
MaxRecords == 2

\* the chunks json.dump writes for one document
JsonChunks == 2

\* CONCURRENCY = 8  # RIPEstat allows 8 concurrent requests per IP
CONCURRENCY == 8

\* RateLimiter(requests_per_second=4)
RequestsPerSecond == 4

Min(a, b) == IF a <= b THEN a ELSE b

VARIABLES
    \* ---- RateLimiter ----
    tokens,        \* self.tokens, in units of 1/TicksPerToken token
    last_refill,   \* self.last_refill, in ticks
    clock,         \* time.time(), in ticks
    pc,            \* where each worker is inside acquire()
    now,           \* acquire()'s local `now` of each worker
    wake_at,       \* the tick at which a worker's time.sleep(wait_time) ends
    calls,         \* acquire() calls started so far
    first_call,    \* tick of the first acquire() call, -1 before it
    returned,      \* the ticks at which acquire() calls returned, in order
    \* ---- path analyzer ----
    country_asns,     \* the in-country ASN set
    routes,           \* the records analyze_routes has consumed so far, in order
    file,             \* the lines of the record-per-line file written so far
    seen,             \* observation keys already processed
    outside_counts,   \* Counter: ASN -> times seen as the outside hop
    iig_counts,       \* Counter: ASN -> times seen as the border gateway
    local_isp_counts, \* Counter: ASN -> times seen as the origin
    edge_intl,        \* Counter: (outside, gateway) -> observations
    edge_domestic,    \* Counter: (origin, gateway) -> observations
    direct_peers,     \* Counter: (a, b) adjacent hops -> observations
    valid_obs,        \* records that _process_single_route accepted
    stream,           \* the same accumulators of analyze_routes_streaming
    stream_idx,       \* lines analyze_routes_streaming has read
    \* ---- build_viz_data ----
    analysis,            \* the analysis result handed to build_viz_data
    asn_info,            \* per ASN, the dominant country of its geolocation
    btrc_licensed_asns,  \* the license registry
    top_intl_edges,      \* the selected international edges, most common first
    top_domestic_edges,  \* the selected domestic edges, most common first
    iigs_with_domestic,  \* the targets of the selected domestic edges
    node_map,            \* the nodes, in the order ensure_node created them
    edges,               \* the edge list built so far
    viz_pc               \* where build_viz_data is

rlVars == <<tokens, last_refill, clock, pc, now, wake_at, calls, first_call, returned>>

anVars == <<country_asns, routes, file, seen, outside_counts, iig_counts,
            local_isp_counts, edge_intl, edge_domestic, direct_peers, valid_obs, stream,
            stream_idx>>

vizVars == <<analysis, asn_info, btrc_licensed_asns, top_intl_edges, top_domestic_edges,
             iigs_with_domestic, node_map, edges, viz_pc>>

VARIABLES
    \* ---- a wave loop at one call site ----
    site,          \* which of the four RIPEstat call sites this loop is
    total_batches, \* the number of units (batches or ASNs) of the loop
    wave_i,        \* the loop variable i: units before the current wave
    main_pc,       \* where the function that runs the loop is
    unit_pc,       \* where each unit's worker is
    attempt,       \* the worker's `attempt` of each unit
    resp,          \* the response of the unit's current attempt
    wait,          \* the seconds the unit's worker is sleeping
    tfails,        \* consecutive transport failures of the unit's running worker
    future,        \* what each unit's worker returned
    collected,     \* the futures the as_completed loop has handled
    all_routes,    \* the records gathered from successful units
    completed,     \* the loop's `completed` counter
    failed         \* the loop's `failed` counter

fetchVars == <<site, total_batches, wave_i, main_pc, unit_pc, attempt, resp, wait,
               tfails, future, collected, all_routes, completed, failed>>

VARIABLES
    \* ---- the worker pool of one script ----
    script,        \* which script is running
    pending,       \* units the script has not yet submitted to a pool
    queued,        \* submitted units no worker thread has taken yet
    acquiring,     \* worker threads between taking a unit and its request
    in_flight      \* worker threads inside requests.get

poolVars == <<script, pending, queued, acquiring, in_flight>>

VARIABLES
    \* ---- one run of a script, stage by stage ----
    run_script,     \* the script, and for update_bgp_data.py its mode
    stage,          \* the stage the run is in
    acquired,       \* acquire() has returned in the current attempt
    reqs,           \* requests issued in the current stage
    log,            \* the endpoints requested so far, with and without acquire()
    written,        \* the output files opened for writing so far
    country_failed  \* the country-resource request has failed

runVars == <<run_script, stage, acquired, reqs, log, written, country_failed>>

VARIABLES
    \* ---- fetch_asn_info ----
    existing_asn_names, \* the cached entries the function is given
    asn_list,           \* the ASNs the function is asked about
    need_fetch,         \* the ASNs still to be fetched
    results,            \* per ASN, the country of its entry
    info_pc             \* where fetch_asn_info is

infoVars == <<existing_asn_names, asn_list, need_fetch, results, info_pc>>

VARIABLES
    \* ---- determine_peering_location ----
    upstream_asns,  \* the target's upstream neighbours, in the order given
    geo_dominant,   \* the dominant country of the target's geolocation
    pdb_cache,      \* per ASN, its PeeringDB network record
    peering,        \* what determine_peering_location returned
    peer_pc         \* before or after the call

peerVars == <<upstream_asns, geo_dominant, pdb_cache, peering, peer_pc>>

VARIABLES
    \* ---- fetch_geo_country ----
    geo_outcome,     \* the outcome of the geolocation request
    geo_locations,   \* the locations of the response body
    geo_data,        \* what fetch_geo_country returned
    geo_pc           \* before or after the call

geoVars == <<geo_outcome, geo_locations, geo_data, geo_pc>>

VARIABLES
    \* ---- the output files of main() ----
    disk,            \* what each output file holds
    n_records,       \* the deduplicated records to save
    raw_records,     \* the records written to the store so far
    raw_newline,     \* the last record written has its newline
    file_k,          \* the derived file being written
    chunks,          \* the chunks json.dump has written to it
    classified,      \* build_viz_data has returned
    persist_pc       \* the step main() is at

persistVars == <<disk, n_records, raw_records, raw_newline, file_k, chunks, classified, persist_pc>>

VARIABLES
    \* ---- main(): deduplication, analysis and geolocation selection ----
    fetched_routes,  \* what fetch_bgp_routes returned
    deduped_routes,  \* the records kept by the deduplication pass
    intl_ranking,    \* edge_intl in the order most_common gives
    tentative_iig_asns, \* the ASNs whose geolocation is queried
    main_step        \* the statement main() is at

mainVars == <<fetched_routes, deduped_routes, intl_ranking, tentative_iig_asns, main_step>>

VARIABLES
    \* ---- chunk_prefixes ----
    prefixes,        \* the list to split
    prefix_chunks,   \* chunks, the list of finished chunks
    chunk,           \* the chunk being filled
    current_len,     \* the comma-joined length of chunk
    prefix_i,        \* the prefixes the loop has taken
    chunk_pc         \* where chunk_prefixes is

chunkVars == <<prefixes, prefix_chunks, chunk, current_len, prefix_i, chunk_pc>>

VARIABLES
    \* ---- reclassify_iigs.py ----
    viz_data,        \* viz_data["nodes"], as loaded and updated in place
    asn_names,       \* the country asn_names.json gives each ASN
    reclassified,    \* the counts of the reclassification results
    node_i,          \* the nodes the loop has taken
    reclass_pc       \* where the script is

reclassVars == <<viz_data, asn_names, reclassified, node_i, reclass_pc>>

ioVars == <<fetchVars, poolVars, runVars, infoVars, peerVars, geoVars, persistVars, mainVars, chunkVars, reclassVars>>

\* everything but the state of reclassify_iigs.py
notReclassVars == <<rlVars, anVars, vizVars,
    fetchVars, poolVars, runVars, infoVars, peerVars, geoVars, persistVars, mainVars, chunkVars>>


\* everything but the state of chunk_prefixes
notChunkVars == <<rlVars, anVars, vizVars,
    fetchVars, poolVars, runVars, infoVars, peerVars, geoVars, persistVars, mainVars,
    reclassVars>>


\* everything but the state of main(): deduplication, analysis and geolocation selection
notMainVars == <<rlVars, anVars, vizVars,
    fetchVars, poolVars, runVars, infoVars, peerVars, geoVars, persistVars,
    chunkVars,
    reclassVars>>


\* everything but the output files of main()
notPersistVars == <<rlVars, anVars, vizVars,
    fetchVars, poolVars, runVars, infoVars, peerVars, geoVars,
    mainVars,
    chunkVars,
    reclassVars>>


\* everything but the state of fetch_geo_country
notGeoVars == <<rlVars, anVars, vizVars,
    fetchVars, poolVars, runVars, infoVars, peerVars,
    persistVars,
    mainVars,
    chunkVars,
    reclassVars>>


\* everything but the state of determine_peering_location
notPeerVars == <<rlVars, anVars, vizVars, fetchVars, poolVars, runVars, infoVars,
    geoVars,
    persistVars,
    mainVars,
    chunkVars,
    reclassVars>>

\* everything but the state of fetch_asn_info
notInfoVars == <<rlVars, anVars, vizVars, fetchVars, poolVars, runVars,
    peerVars,
    geoVars,
    persistVars,
    mainVars,
    chunkVars,
    reclassVars>>

\* everything but the state of the wave loop
notFetchVars == <<rlVars, anVars, vizVars, poolVars, runVars, infoVars,
    peerVars,
    geoVars,
    persistVars,
    mainVars,
    chunkVars,
    reclassVars>>

\* everything but the state of the worker pool
notPoolVars == <<rlVars, anVars, vizVars, fetchVars, runVars, infoVars,
    peerVars,
    geoVars,
    persistVars,
    mainVars,
    chunkVars,
    reclassVars>>

\* everything but the state of the run
notRunVars == <<rlVars, anVars, vizVars, fetchVars, poolVars, infoVars,
    peerVars,
    geoVars,
    persistVars,
    mainVars,
    chunkVars,
    reclassVars>>

vars == <<rlVars, anVars, vizVars, ioVars>>

(***************************************************************************)
(* Path analyzer: the records                                              *)
(***************************************************************************)
\* the autonomous systems of the model, as the digit strings the analyzer keeps
Asns == {"64500", "100", "200"}

\* the country sets a run may be given
CountrySets == {{"100"}, {"100", "200"}}

\* rt.get(...) of a key the record does not have
None == "None"

\* str(x).strip()
StrStrip(x) == IF x = " 100 " THEN "100" ELSE x

\* s.isdigit()
IsDigit(s) == s \in Asns

\* every sequence over S of length at most n
SeqsUpTo(S, n) == UNION {[1..k -> S] : k \in 0..n}

\* the end-to-end scenario's record (its path carries a prepended hop)
ScenarioRoute ==
    [target_prefix |-> "1.2.3.0/24", source_id |-> "rrc00",
     path |-> <<"64500", "64500", "100", "200">>]

\* longer raw paths, and raw paths with elements the cleaning discards or
\* rewrites (a padded ASN, an AS-set)
LongPaths ==
    { <<"64500", "100", "200">>,
      <<"64500", "200", "100">>,
      <<"64500", " 100 ", "100">>,
      <<"64500", "{64501,64502}", "100">>,
      <<"{64501,64502}", "200">>,
      ScenarioRoute.path }

\* the raw paths of the input records
RawPaths == SeqsUpTo(Asns, MaxPathLen) \cup LongPaths

\* the input records: one observation key with every path, a second key
\* with the longer paths, and records
\* that lack the target, the source id or the path (line 322 reads a missing
\* path as [], which is how such a record is written here)
Routes ==
    [target_prefix : {"1.2.3.0/24"}, source_id : {"rrc00"}, path : RawPaths]
      \cup [target_prefix : {"1.2.3.0/24"}, source_id : {"rrc01"}, path : LongPaths]
      \cup { [target_prefix |-> None, source_id |-> "rrc00", path |-> <<"64500", "100">>],
             [target_prefix |-> "1.2.3.0/24", source_id |-> None, path |-> <<"64500", "100">>],
             [target_prefix |-> "", source_id |-> "rrc01", path |-> <<"64500", "100", "200">>],
             [target_prefix |-> "1.2.3.0/24", source_id |-> "rrc01", path |-> <<>>] }

\* Python truthiness of a field: None and "" are false
Falsy(v) == v = None \/ v = ""

(***************************************************************************)
(* Path analyzer: _process_single_route                                    *)
(***************************************************************************)
\* collections.Counter(): every key reads as 0
EmptyCounter(keys) == [k \in keys |-> 0]

\* counter[k] += 1
Incr(counter, k) == [counter EXCEPT ![k] = @ + 1]

\* the seven accumulators of one analysis, and its count of accepted records
FreshAccumulators ==
    [seen |-> {},
     outside_counts |-> EmptyCounter(Asns),
     iig_counts |-> EmptyCounter(Asns),
     local_isp_counts |-> EmptyCounter(Asns),
     edge_intl |-> EmptyCounter(Asns \X Asns),
     edge_domestic |-> EmptyCounter(Asns \X Asns),
     direct_peers |-> EmptyCounter(Asns \X Asns),
     valid_obs |-> 0]

\* a cleaning that keeps prepended hops
RECURSIVE CleanFromKeepPrepends(_, _, _)
CleanFromKeepPrepends(path_raw, k, path) ==
    IF k > Len(path_raw) THEN path
    ELSE LET s == StrStrip(path_raw[k])
         IN  IF IsDigit(s)
               THEN CleanFromKeepPrepends(path_raw, k + 1, Append(path, s))
               ELSE CleanFromKeepPrepends(path_raw, k + 1, path)

\* lines 325-329: keep the digit strings, collapse consecutive duplicates
RECURSIVE CleanFrom(_, _, _)
CleanFrom(path_raw, k, path) ==
    IF k > Len(path_raw) THEN path
    ELSE LET s == StrStrip(path_raw[k])
         IN  IF IsDigit(s) /\ (path = <<>> \/ path[Len(path)] # s)
               THEN CleanFrom(path_raw, k + 1, Append(path, s))
               ELSE CleanFrom(path_raw, k + 1, path)

\* lines 325-329, from an empty path
CleanPath(path_raw) == CleanFrom(path_raw, 1, <<>>)

\* lines 340-342: walk back from the origin while the hop is in the country;
\* the result is 1-based, 0 when the whole path is in the country
RECURSIVE WalkBack(_, _, _)
WalkBack(path, ca, i) ==
    IF i >= 1 /\ path[i] \in ca THEN WalkBack(path, ca, i - 1) ELSE i

\* an outside hop read as path[i] with no test of i: Python's path[-1]
OutsideOfUnguarded(path, ca) ==
    LET i == WalkBack(path, ca, Len(path)) IN IF i >= 1 THEN path[i] ELSE path[Len(path)]

\* line 344: outside = path[i] if i >= 0 else None
OutsideOf(path, ca) ==
    LET i == WalkBack(path, ca, Len(path)) IN IF i >= 1 THEN path[i] ELSE None

\* a gateway read one hop too early, at path[i]
GatewayOfOffByOne(path, ca) ==
    LET i == WalkBack(path, ca, Len(path)) IN IF i >= 1 THEN path[i] ELSE None

\* line 345: iig = path[i + 1] if (i + 1) < len(path) else None
GatewayOf(path, ca) ==
    LET i == WalkBack(path, ca, Len(path)) IN IF i + 1 <= Len(path) THEN path[i + 1] ELSE None

\* line 346: origin = path[-1]
OriginOf(path) == path[Len(path)]

\* lines 349-352: count every adjacent pair with a side in the country
RECURSIVE TrackPeers(_, _, _, _)
TrackPeers(path, ca, pi, dp) ==
    IF pi >= Len(path) THEN dp
    ELSE LET a == path[pi]
             b == path[pi + 1]
         IN  TrackPeers(path, ca, pi + 1,
                        IF a \in ca \/ b \in ca THEN Incr(dp, <<a, b>>) ELSE dp)

\* line 331: the record is dropped before its key is looked at
Rejected(rt) ==
    Falsy(rt.target_prefix) \/ Falsy(rt.source_id) \/ Len(CleanPath(rt.path)) < 2

\* line 334
KeyOf(rt) == <<rt.target_prefix, rt.source_id>>

\* edge counting that adds the domestic edge without comparing origin and gateway
CountEdgesSelfLoop(path, ca, acc) ==
    LET outside == OutsideOf(path, ca)
        iig == GatewayOf(path, ca)
        origin == OriginOf(path)
    IN  IF outside # None /\ iig # None
          THEN LET a1 == [acc EXCEPT !.outside_counts = Incr(@, outside),
                                     !.iig_counts = Incr(@, iig),
                                     !.edge_intl = Incr(@, <<outside, iig>>)]
               IN  IF origin \in ca
                     THEN [a1 EXCEPT !.local_isp_counts = Incr(@, origin),
                                     !.edge_domestic = Incr(@, <<origin, iig>>)]
                     ELSE a1
          ELSE acc

\* edge counting that leaves the origin uncounted when it is its own gateway
CountEdgesNoOwnGateway(path, ca, acc) ==
    LET outside == OutsideOf(path, ca)
        iig == GatewayOf(path, ca)
        origin == OriginOf(path)
    IN  IF outside # None /\ iig # None
          THEN LET a1 == [acc EXCEPT !.outside_counts = Incr(@, outside),
                                     !.iig_counts = Incr(@, iig),
                                     !.edge_intl = Incr(@, <<outside, iig>>)]
               IN  IF origin # iig /\ origin \in ca
                     THEN [a1 EXCEPT !.local_isp_counts = Incr(@, origin),
                                     !.edge_domestic = Incr(@, <<origin, iig>>)]
                     ELSE a1
          ELSE acc

\* lines 354-364: the role and edge counters of an accepted record
CountEdges(path, ca, acc) ==
    LET outside == OutsideOf(path, ca)
        iig == GatewayOf(path, ca)
        origin == OriginOf(path)
    IN  IF outside # None /\ iig # None
          THEN LET a1 == [acc EXCEPT !.outside_counts = Incr(@, outside),
                                     !.iig_counts = Incr(@, iig),
                                     !.edge_intl = Incr(@, <<outside, iig>>)]
               IN  IF origin # iig /\ origin \in ca
                     THEN [a1 EXCEPT !.local_isp_counts = Incr(@, origin),
                                     !.edge_domestic = Incr(@, <<origin, iig>>)]
                     ELSE IF origin = iig
                            THEN [a1 EXCEPT !.local_isp_counts = Incr(@, origin)]
                            ELSE a1
          ELSE acc

\* a _process_single_route that records the key before it validates the
\* record
ProcessSingleRouteEagerSeen(rt, ca, acc) ==
    IF KeyOf(rt) \in acc.seen THEN [ret |-> FALSE, acc |-> acc]
    ELSE IF Rejected(rt)
           THEN [ret |-> FALSE, acc |-> [acc EXCEPT !.seen = @ \cup {KeyOf(rt)}]]
    ELSE LET path == CleanPath(rt.path)
             a0 == [acc EXCEPT !.seen = @ \cup {KeyOf(rt)},
                               !.direct_peers = TrackPeers(path, ca, 1, @)]
         IN  [ret |-> TRUE, acc |-> CountEdges(path, ca, a0)]

\* a _process_single_route that never looks its key up in `seen`
ProcessSingleRouteNoDedup(rt, ca, acc) ==
    IF Rejected(rt) THEN [ret |-> FALSE, acc |-> acc]
    ELSE LET path == CleanPath(rt.path)
             a0 == [acc EXCEPT !.seen = @ \cup {KeyOf(rt)},
                               !.direct_peers = TrackPeers(path, ca, 1, @)]
         IN  [ret |-> TRUE, acc |-> CountEdges(path, ca, a0)]

\* _process_single_route: the accumulators after the call and its return
\* value; the caller adds the return value to valid_obs (lines 429-432)
ProcessSingleRoute(rt, ca, acc) ==
    IF Rejected(rt) THEN [ret |-> FALSE, acc |-> acc]
    ELSE IF KeyOf(rt) \in acc.seen THEN [ret |-> FALSE, acc |-> acc]
    ELSE LET path == CleanPath(rt.path)
             a0 == [acc EXCEPT !.seen = @ \cup {KeyOf(rt)},
                               !.direct_peers = TrackPeers(path, ca, 1, @)]
         IN  [ret |-> TRUE, acc |-> CountEdges(path, ca, a0)]

\* lines 429-432 and 474-477: one iteration of the analysis loop
LoopStep(rt, ca, acc) ==
    LET r == ProcessSingleRoute(rt, ca, acc)
    IN  IF r.ret THEN [r.acc EXCEPT !.valid_obs = @ + 1] ELSE r.acc

\* lines 380-392: each in-country ASN's foreign neighbours, as sets
DirectPeersMap(dp, ca) ==
    LET nbrs(x) == {a \in Asns \ ca : dp[<<a, x>>] > 0 \/ dp[<<x, a>>] > 0}
    IN  [x \in {y \in ca \cap Asns : nbrs(y) # {}} |-> nbrs(x)]

\* lines 397-405: the analysis result
FinalizeAnalysis(acc, ca) ==
    [outside_counts |-> acc.outside_counts,
     iig_counts |-> acc.iig_counts,
     local_isp_counts |-> acc.local_isp_counts,
     edge_intl |-> acc.edge_intl,
     edge_domestic |-> acc.edge_domestic,
     direct_peers_map |-> DirectPeersMap(acc.direct_peers, ca),
     valid_obs |-> acc.valid_obs]

\* fast_json_dumps(rt) and the newline: one line of the record-per-line file
JsonDumps(rt) == <<"{", rt.target_prefix, rt.source_id, rt.path, "}">>

\* fast_json_loads(line)
JsonLoads(line) == [target_prefix |-> line[2], source_id |-> line[3], path |-> line[4]]

\* the accumulators of analyze_routes, as one record
Accumulators ==
    [seen |-> seen,
     outside_counts |-> outside_counts,
     iig_counts |-> iig_counts,
     local_isp_counts |-> local_isp_counts,
     edge_intl |-> edge_intl,
     edge_domestic |-> edge_domestic,
     direct_peers |-> direct_peers,
     valid_obs |-> valid_obs]

\* the analyzer before any record
AnalyzerFresh ==
    /\ routes = <<>>
    /\ file = <<>>
    /\ seen = {}
    /\ outside_counts = EmptyCounter(Asns)
    /\ iig_counts = EmptyCounter(Asns)
    /\ local_isp_counts = EmptyCounter(Asns)
    /\ edge_intl = EmptyCounter(Asns \X Asns)
    /\ edge_domestic = EmptyCounter(Asns \X Asns)
    /\ direct_peers = EmptyCounter(Asns \X Asns)
    /\ valid_obs = 0
    /\ stream = FreshAccumulators
    /\ stream_idx = 0

(***************************************************************************)
(* build_viz_data: inputs and helpers                                      *)
(***************************************************************************)
\* the dominant geolocation countries of asn_info: none recorded, home, abroad
GeoCountries == {"", "BD", "SG"}

\* the collectors of the observations behind an analysis
Collectors == <<"rrc00", "rrc01", "rrc03", "rrc04", "rrc05", "rrc06">>

\* the paths of the observations behind an analysis
VizPaths ==
    { <<"64500", "100">>, <<"64500", "200">>, <<"64500", "100", "200">>,
      <<"64500", "200", "100">>, <<"100", "200">> }

\* analyze_routes, lines 415-435: the loop over the list, then the result
RECURSIVE AnalyzeFrom(_, _, _, _)
AnalyzeFrom(rts, ca, idx, acc) ==
    IF idx > Len(rts) THEN FinalizeAnalysis(acc, ca)
    ELSE AnalyzeFrom(rts, ca, idx + 1, LoopStep(rts[idx], ca, acc))

AnalyzeRoutes(rts, ca) == AnalyzeFrom(rts, ca, 1, FreshAccumulators)

\* the records of the given paths, one collector each
Observations(paths) ==
    [k \in 1..Len(paths) |->
        [target_prefix |-> "1.2.3.0/24", source_id |-> Collectors[k], path |-> paths[k]]]

\* the keys a Counter holds
Present(counter) == {k \in DOMAIN counter : counter[k] > 0}

\* a selection of n keys that does not look at their counts
MostCommonAnyKeys(counter, n) ==
    LET keys == Present(counter)
        m == Min(n, Cardinality(keys))
    IN  { [i \in 1..m |-> <<sel[i], counter[sel[i]]>>] :
            sel \in { f \in [1..m -> keys] : \A i, j \in 1..m : i < j => f[i] # f[j] } }

\* Counter.most_common(n): the n most frequent (key, count) pairs, most
\* frequent first; equal counts come in the order the keys were first
\* counted, which is any order here
MostCommon(counter, n) ==
    LET keys == Present(counter)
        m == Min(n, Cardinality(keys))
    IN  { [i \in 1..m |-> <<sel[i], counter[sel[i]]>>] :
            sel \in { f \in [1..m -> keys] :
                        /\ \A i, j \in 1..m : i < j => f[i] # f[j] /\ counter[f[i]] >= counter[f[j]]
                        /\ \A k \in keys :
                              (\A i \in 1..m : f[i] # k) => \A i \in 1..m : counter[k] <= counter[f[i]] } }

\* asn in node_map
HasNode(nm, asn) == \E i \in 1..Len(nm) : nm[i].asn = asn

\* an ensure_node that keeps the tentative role it is given
NodeTypeNoReclassify(asn, node_type) == node_type

\* an ensure_node that does not split the offshore ASNs by transit role
NodeTypeNoTransitSplit(asn, node_type) ==
    LET geo_country == asn_info[asn]
        is_bd_registered == asn \in country_asns
    IN  IF node_type = "iig"
          THEN IF asn \in btrc_licensed_asns THEN "iig"
               ELSE IF is_bd_registered /\ geo_country # "" /\ geo_country # "BD"
                      THEN "offshore-gateway"
               ELSE IF asn \in iigs_with_domestic THEN "detected-iig"
               ELSE "local-company"
          ELSE node_type

\* lines 1012-1031: the role ensure_node gives a new node
NodeType(asn, node_type) ==
    LET geo_country == asn_info[asn]
        is_bd_registered == asn \in country_asns
    IN  IF node_type = "iig"
          THEN IF asn \in btrc_licensed_asns THEN "iig"
               ELSE IF is_bd_registered /\ geo_country # "" /\ geo_country # "BD"
                      THEN IF asn \in iigs_with_domestic THEN "offshore-gateway"
                           ELSE "offshore-enterprise"
               ELSE IF asn \in iigs_with_domestic THEN "detected-iig"
               ELSE "local-company"
          ELSE node_type

\* ensure_node, lines 1010-1050
EnsureNode(nm, asn, node_type) ==
    IF HasNode(nm, asn) THEN nm
    ELSE Append(nm, [asn |-> asn,
                     type |-> NodeType(asn, node_type),
                     licensed |-> asn \in btrc_licensed_asns,
                     geo_country |-> asn_info[asn],
                     traffic |-> 0])

\* the sum of f over the indices 1..n
RECURSIVE SumTo(_, _)
SumTo(f, n) == IF n = 0 THEN 0 ELSE f[n] + SumTo(f, n - 1)

\* traffic counted at the target end of an edge only
TrafficOfTargetOnly(asn) ==
    SumTo([i \in 1..Len(edges) |-> (IF edges[i].target = asn THEN edges[i].count ELSE 0)],
          Len(edges))

\* lines 1067-1071: the counts of the edges that have asn as an endpoint
TrafficOf(asn) ==
    SumTo([i \in 1..Len(edges) |->
             (IF edges[i].source = asn THEN edges[i].count ELSE 0)
               + (IF edges[i].target = asn THEN edges[i].count ELSE 0)],
          Len(edges))

\* a divisor that counts the domestic edges too and is 0 for an empty graph
TotalTrafficAllEdges ==
    SumTo([i \in 1..Len(edges) |-> edges[i].count], Len(edges))

\* line 1074: total_intl_traffic
TotalIntlTraffic ==
    LET total == SumTo([i \in 1..Len(top_intl_edges) |-> top_intl_edges[i][2]],
                       Len(top_intl_edges))
    IN  IF total = 0 THEN 1 ELSE total

\* lines 1076-1083: the rank of node i among the nodes of its role, sorted
\* by traffic, the larger first and equal traffic in node_map order
RankOf(nm, i) ==
    1 + Cardinality({j \in 1..Len(nm) :
                        /\ nm[j].type = nm[i].type
                        /\ \/ nm[j].traffic > nm[i].traffic
                           \/ nm[j].traffic = nm[i].traffic /\ j < i})

\* build_viz_data before its first statement
VizFresh ==
    /\ top_intl_edges = <<>>
    /\ top_domestic_edges = <<>>
    /\ iigs_with_domestic = {}
    /\ node_map = <<>>
    /\ edges = <<>>
    /\ viz_pc = "start"

\* no graph is being built
VizParked ==
    /\ analysis = FinalizeAnalysis(FreshAccumulators, {})
    /\ asn_info = [a \in Asns |-> ""]
    /\ btrc_licensed_asns = {}
    /\ VizFresh

(***************************************************************************)
(* Wave loops: the worker of one unit at each RIPEstat call site           *)
(***************************************************************************)
\* the four call sites: fetch_bgp_routes, fetch_announced_prefixes,
\* fetch_asn_info and fetch_geo_countries
Sites == {"routes", "prefixes", "overview", "geo"}

\* what one requests.get can come back with: a good response, a 429 with a
\* numeric Retry-After header, with none, or with one that is not a number
\* (an HTTP date), another error status, a transport error, or a 200 whose
\* JSON has not the expected shape ("data": null)
Responses == {"ok", "rate_hint", "rate_nohint", "rate_badhint", "http_error",
              "transport", "bad_body"}

\* r.status_code == 429
RateLimited == {"rate_hint", "rate_nohint", "rate_badhint"}

\* the seconds a well-formed Retry-After header of a 429 asks for
RetryAfterHint == 5

\* max_retries of the worker of each call site
MaxRetries(s) ==
    CASE s = "routes" -> 3
      [] s = "prefixes" -> 2
      [] s = "overview" -> 2
      [] OTHER -> 0

\* int(r.headers.get('Retry-After', default)) of a header that is a number
\* or is missing
RetryAfter(r, default) == IF r = "rate_hint" THEN RetryAfterHint ELSE default

\* the worker goes to time.sleep(n) and then to its next attempt
Sleep(n) == [pc |-> "sleep", wait |-> n, future |-> "none"]

\* the worker returns: "success" and "failure" are the result dicts,
\* "fallback" is the placeholder entry of the metadata workers
Return(f) == [pc |-> "done", wait |-> 0, future |-> f]

\* an exception leaves the worker and is stored in its future
Raise == [pc |-> "raised", wait |-> 0, future |-> "raised"]

\* wait_time = 2 ** attempt
BackoffWait(att) == 2 ^ att

\* a handler that reports a batch as fetched when its retries run out
OnRequestExceptionSuccess(att, max) ==
    IF att < max THEN Sleep(BackoffWait(att)) ELSE Return("success")

\* the `except requests.RequestException` handler of the batch and prefix
\* workers
OnRequestException(att, max) ==
    IF att < max THEN Sleep(BackoffWait(att)) ELSE Return("failure")

\* fetch_batch_with_retry: one attempt and what follows it.  int() of a
\* header that is not a number raises ValueError and .get on a body of the
\* wrong shape raises AttributeError; neither is a RequestException.  A 429
\* on the last attempt falls through to raise_for_status.
fetch_batch_with_retry(att, r) ==
    CASE r = "rate_badhint" -> Raise
      [] r \in {"rate_hint", "rate_nohint"} ->
           IF att < 3 THEN Sleep(RetryAfter(r, 60)) ELSE OnRequestException(att, 3)
      [] r \in {"http_error", "transport"} -> OnRequestException(att, 3)
      [] r = "bad_body" -> Raise
      [] OTHER -> Return("success")

\* fetch_announced_prefixes.fetch_one
fetch_one(att, r) ==
    CASE r = "rate_badhint" -> Raise
      [] r \in {"rate_hint", "rate_nohint"} ->
           IF att < 2 THEN Sleep(RetryAfter(r, 30)) ELSE Return("failure")
      [] r \in {"http_error", "transport"} -> OnRequestException(att, 2)
      [] r = "bad_body" -> Raise
      [] OTHER -> Return("success")

\* fetch_asn_info.fetch_asn: raise_for_status turns every error status, 429
\* included, into a RequestException; any other exception gives the
\* placeholder entry at once
fetch_asn(att, r) ==
    CASE r \in RateLimited \cup {"http_error", "transport"} ->
           IF att < 2 THEN Sleep(1) ELSE Return("fallback")
      [] r = "bad_body" -> Return("fallback")
      [] OTHER -> Return("success")

\* fetch_geo_country: one request, every exception gives the fallback
fetch_geo_country(att, r) ==
    IF r = "ok" THEN Return("success") ELSE Return("fallback")

\* the worker the loop of a call site submits
Worker(s, att, r) ==
    CASE s = "routes" -> fetch_batch_with_retry(att, r)
      [] s = "prefixes" -> fetch_one(att, r)
      [] s = "overview" -> fetch_asn(att, r)
      [] OTHER -> fetch_geo_country(att, r)

\* the units of a loop, numbered in submission order
Units == 1..MaxUnits

\* the records in the response to the request of unit u
RoutesOf(u) == <<[unit |-> u, n |-> 1], [unit |-> u, n |-> 2]>>

\* asn_list[i:i + concurrency]
Wave(i) == {u \in 1..total_batches : i < u /\ u <= i + WaveSize}

\* no wave loop is running
FetchParked ==
    /\ site = "routes"
    /\ total_batches = 0
    /\ wave_i = 0
    /\ main_pc = "parked"
    /\ unit_pc = [u \in Units |-> "idle"]
    /\ attempt = [u \in Units |-> 0]
    /\ resp = [u \in Units |-> "none"]
    /\ wait = [u \in Units |-> 0]
    /\ tfails = [u \in Units |-> 0]
    /\ future = [u \in Units |-> "none"]
    /\ collected = {}
    /\ all_routes = <<>>
    /\ completed = 0
    /\ failed = 0

(***************************************************************************)
(* The worker pools of the scripts                                         *)
(***************************************************************************)
\* the scripts that fetch with worker threads
Scripts == {"update_bgp_data", "fetch_bgp_routes", "reprocess_3layer"}

\* max_workers of the script's ThreadPoolExecutor
PoolSize(sc) ==
    CASE sc = "update_bgp_data" -> CONCURRENCY
      [] sc = "fetch_bgp_routes" -> 5
      [] OTHER -> 20

\* update_bgp_data.py and fetch_bgp_routes.py submit one slice of
\* `concurrency` units per executor; reprocess_3layer.py submits every ASN
\* of need_country to the one executor
SubmitCount(sc, n) == IF sc = "reprocess_3layer" THEN n ELSE Min(PoolSize(sc), n)

\* no script is fetching
PoolParked ==
    /\ script = "update_bgp_data"
    /\ pending = 0
    /\ queued = 0
    /\ acquiring = 0
    /\ in_flight = 0

(***************************************************************************)
(* The runs of the scripts: stages, requests and output files              *)
(***************************************************************************)
\* update_bgp_data.py without and with --reprocess, fetch_bgp_routes.py and
\* reprocess_3layer.py
RunScripts == {"update_bgp_data", "update_bgp_data --reprocess", "fetch_bgp_routes",
               "reprocess_3layer"}

\* the stages of each script's main flow, in order
StagesOf(sc) ==
    CASE sc = "update_bgp_data" ->
           <<"country", "prefixes", "routes", "save_raw", "overview", "geo",
             "peeringdb_net", "peeringdb_ix", "save", "done">>
      [] sc = "update_bgp_data --reprocess" ->
           <<"country", "overview", "geo", "peeringdb_net", "peeringdb_ix", "save", "done">>
      [] sc = "fetch_bgp_routes" -> <<"country", "routes", "save_raw", "done">>
      [] OTHER -> <<"country", "overview", "save", "done">>

\* the stage that follows st in the script
NextStage(sc, st) ==
    LET seq == StagesOf(sc)
        k == CHOOSE j \in 1..Len(seq) : seq[j] = st
    IN  seq[k + 1]

\* the stages whose workers call rate_limiter.acquire() before requests.get
LimitedStages == {"prefixes", "routes", "overview", "geo"}

\* the stages that query PeeringDB: time.sleep(PEERINGDB_DELAY), then
\* requests.get, and on a 429 time.sleep(60) and requests.get again
PeeringStages == {"peeringdb_net", "peeringdb_ix"}

\* the files a saving stage opens for writing
FilesOf(sc, st) ==
    IF st = "save_raw"
      THEN IF sc = "fetch_bgp_routes" THEN {"bgp_routes_raw.json"}
           ELSE {"bgp_routes_raw.jsonl"}
      ELSE {"viz_data.json", "asn_names.json", "metadata.json"}

\* no run is modelled
RunParked ==
    /\ run_script = "update_bgp_data"
    /\ stage = "parked"
    /\ acquired = FALSE
    /\ reqs = 0
    /\ log = {}
    /\ written = {}
    /\ country_failed = FALSE

(***************************************************************************)
(* fetch_asn_info: the country of an ASN                                   *)
(***************************************************************************)
\* the ASNs of the metadata model: two of the well-known table, a foreign
\* one that is not in it, and one of the country
InfoAsns == {"9002", "174", "64500", "100"}

\* the country sets fetch_asn_info may be given
InfoCountrySets == {{"100"}, {"100", "174"}}

\* INVALID_REGIONS
INVALID_REGIONS == {"AP", "EU", "AS", "AF", "LA", "NA", "OC", "AN"}

\* WELL_KNOWN_COUNTRIES
WELL_KNOWN_COUNTRIES ==
    [a \in {"174", "6939", "6461", "3356", "1299", "2914", "3257", "3491", "5511",
            "6762", "9002", "9498", "4637", "2516", "4826", "7922", "20473", "13335",
            "16509", "15169", "8075", "32934", "36351", "46489", "397143"} |->
        CASE a = "1299" -> "SE"
          [] a = "3257" -> "DE"
          [] a = "5511" -> "FR"
          [] a = "6762" -> "IT"
          [] a = "9002" -> "EU"
          [] a = "9498" -> "IN"
          [] a = "4637" -> "HK"
          [] a = "2516" -> "JP"
          [] a = "4826" -> "AU"
          [] OTHER -> "US"]

\* a holder string, as its whitespace-separated words, each word as its
\* hyphen-separated pieces: "RETN-eu RetnNet" is <<<<"RETN", "eu">>, <<"RetnNet">>>>
Holders ==
    { <<>>,
      << <<"Level3">> >>,
      << <<"RETN", "EU">>, <<"RETN">> >>,
      << <<"RETN", "eu">>, <<"RetnNet">> >>,
      << <<"APNIC", "AP">> >>,
      << <<"NTT", "US">>, <<"NTT">> >>,
      << <<"COGENT", "174">> >>,
      << <<"AS", "B2">> >>,
      << <<"TATA", "COMM", "IN">> >> }

\* s.upper()
Upper(s) == CASE s = "eu" -> "EU" [] OTHER -> s

\* len(s) == 2 and s.isalpha()
TwoLetters(s) == s \in {"EU", "AP", "US", "IN", "AS"}

\* lines 534-540: the country read from the first word of the holder
HolderCountry(holder) ==
    IF holder = <<>> THEN ""
    ELSE LET first == holder[1]
         IN  IF Len(first) > 1
               THEN LET suffix == Upper(first[Len(first)])
                    IN  IF TwoLetters(suffix) /\ suffix \notin INVALID_REGIONS
                          THEN suffix ELSE ""
               ELSE ""

\* an ASN with no entry, and an entry with no "country" key
Absent == "<absent>"
NoCountryKey == "<no country key>"

\* results[asn].get("country", "")
CountryOf(res, a) == IF res[a] = NoCountryKey THEN "" ELSE res[a]

\* the entries a cache file can hold for an ASN: asn_names.json is what an
\* earlier run of fetch_asn_info returned
CacheValues(a) ==
    {Absent, NoCountryKey, "", "US"} \cup (IF a = "9002" THEN {"EU"} ELSE {})

\* fetch_asn_info is not running
InfoParked ==
    /\ existing_asn_names = [a \in InfoAsns |-> Absent]
    /\ asn_list = {}
    /\ need_fetch = {}
    /\ results = [a \in InfoAsns |-> Absent]
    /\ info_pc = "parked"

(***************************************************************************)
(* PeeringDB: analyze_peering_from_peeringdb, determine_peering_location   *)
(***************************************************************************)
\* the home country
Home == "BD"

\* the ASN whose peering location is asked for, and its upstream neighbours
TargetAsn == "100"
UpstreamAsns == {"64500", "200"}

\* ix_cache: the country of each exchange; exchange 3 has none
IxCountry(ix_id) ==
    CASE ix_id = 1 -> "SG"
      [] ix_id = 2 -> "BD"
      [] OTHER -> ""

\* a network record: the countries of its facilities (netfac_set) and its
\* exchange ports (netixlan_set), in the order of the record
Net(facs, ixs) == [present |-> TRUE, netfac_set |-> facs, netixlan_set |-> ixs]

\* pdb_cache.get(asn) of an ASN PeeringDB does not know
NoNet == [present |-> FALSE, netfac_set |-> <<>>, netixlan_set |-> <<>>]

\* the network records of the model
NetRecords ==
    { Net(<<>>, <<>>),
      Net(<<"BD">>, <<>>),
      Net(<<"SG">>, <<>>),
      Net(<<"IN">>, <<>>),
      Net(<<"SG", "IN">>, <<>>),
      Net(<<"IN">>, <<[ix_id |-> 1, speed |-> 2000]>>),
      Net(<<"BD", "SG">>, <<[ix_id |-> 2, speed |-> 0]>>),
      Net(<<"">>, <<[ix_id |-> 3, speed |-> 100]>>) }

\* countries[cc]["weight"] += w, creating the entry at the end of the dict
AddWeight(countries, cc, w) ==
    IF \E k \in 1..Len(countries) : countries[k].cc = cc
      THEN [k \in 1..Len(countries) |->
              IF countries[k].cc = cc
                THEN [cc |-> cc, weight |-> countries[k].weight + w]
                ELSE countries[k]]
      ELSE Append(countries, [cc |-> cc, weight |-> w])

\* lines 819-832: every facility with a country adds 1000 to it
RECURSIVE AddFacilities(_, _, _)
AddFacilities(countries, facs, k) ==
    IF k > Len(facs) THEN countries
    ELSE AddFacilities(IF facs[k] = "" THEN countries
                       ELSE AddWeight(countries, facs[k], 1000),
                       facs, k + 1)

\* lines 835-847: every exchange port whose exchange has a country adds
\* max(speed, 1) to it
RECURSIVE AddExchanges(_, _, _)
AddExchanges(countries, ixs, k) ==
    IF k > Len(ixs) THEN countries
    ELSE AddExchanges(IF IxCountry(ixs[k].ix_id) = "" THEN countries
                      ELSE AddWeight(countries, IxCountry(ixs[k].ix_id),
                                     IF ixs[k].speed > 1 THEN ixs[k].speed ELSE 1),
                      ixs, k + 1)

\* analyze_peering_from_peeringdb: the dict of countries, as the sequence of
\* its entries in insertion order
analyze_peering_from_peeringdb(net) ==
    AddExchanges(AddFacilities(<<>>, net.netfac_set, 1), net.netixlan_set, 1)

\* the dict with the home country left in
NonHomeUnfiltered(countries) == countries

\* {cc: data for cc, data in countries.items() if cc != "BD"}
NonHome(countries) == SelectSeq(countries, LAMBDA e : e.cc # Home)

\* the keys of the dict
Keys(countries) == {countries[k].cc : k \in 1..Len(countries)}

\* the weight of a key of the dict
WeightIn(countries, cc) ==
    countries[CHOOSE k \in 1..Len(countries) : countries[k].cc = cc].weight

\* max(d, key=weight) over a dict: the first of the heaviest entries
FirstHeaviest(countries) ==
    LET k == CHOOSE i \in 1..Len(countries) :
                 /\ \A j \in 1..Len(countries) : countries[j].weight <= countries[i].weight
                 /\ \A j \in 1..(i - 1) : countries[j].weight < countries[i].weight
    IN  countries[k].cc

\* max(common, key=weight) over a set, whose iteration order is not fixed:
\* any of the heaviest members
Heaviest(cs, countries) ==
    {c \in cs : \A d \in cs : WeightIn(countries, d) <= WeightIn(countries, c)}

\* the upstream neighbours that have a record, in the order given
WithRecord(ups, cache) == SelectSeq(ups, LAMBDA a : cache[a].present)

\* lines 889-894: the weights of one upstream added to upstream_country_details
RECURSIVE AddCountries(_, _, _)
AddCountries(details, countries, k) ==
    IF k > Len(countries) THEN details
    ELSE AddCountries(AddWeight(details, countries[k].cc, countries[k].weight),
                      countries, k + 1)

\* lines 882-894: upstream_country_details after the loop over the upstreams
RECURSIVE UpstreamDetails(_, _, _, _)
UpstreamDetails(details, ups, cache, k) ==
    IF k > Len(ups) THEN details
    ELSE UpstreamDetails(
             AddCountries(details, NonHome(analyze_peering_from_peeringdb(cache[ups[k]])), 1),
             ups, cache, k + 1)

\* a returned location, and the return value None
Location(cc, src) == [country |-> cc, source |-> src]
NoLocation == [country |-> "", source |-> "none"]

\* determine_peering_location: the values it can return (more than one only
\* when max() runs over a set with equally heavy members)
determine_peering_location(target_asn, ups, geo, cache) ==
    LET own == IF cache[target_asn].present
                 THEN NonHome(analyze_peering_from_peeringdb(cache[target_asn]))
                 ELSE <<>>
        known == WithRecord(ups, cache)
        sets == [k \in 1..Len(known) |->
                    Keys(NonHome(analyze_peering_from_peeringdb(cache[known[k]])))]
        details == UpstreamDetails(<<>>, known, cache, 1)
        common == {c \in Keys(details) : \A k \in 1..Len(sets) : c \in sets[k]}
    IN  IF own # <<>>
          THEN {Location(FirstHeaviest(own), "peeringdb")}
        ELSE IF Len(sets) >= 2 /\ common # {}
          THEN {Location(c, "peeringdb-upstream") : c \in Heaviest(common, details)}
        ELSE IF details # <<>>
          THEN {Location(FirstHeaviest(details), "peeringdb-upstream")}
        ELSE IF geo # "" /\ geo # Home
          THEN {Location(geo, "fallback-geo")}
        ELSE {NoLocation}

\* determine_peering_location is not being called
PeerParked ==
    /\ upstream_asns = <<>>
    /\ geo_dominant = ""
    /\ pdb_cache = [a \in {TargetAsn} \cup UpstreamAsns |-> NoNet]
    /\ peering = NoLocation
    /\ peer_pc = "parked"

(***************************************************************************)
(* Geolocation: fetch_geo_country                                          *)
(***************************************************************************)
\* the outcomes of the geolocation request: a body with status "ok", a body
\* with another status, an HTTP error status, a transport failure
GeoOutcomes == {"ok", "status_error", "http_error", "transport"}

\* the countries of a location ("" for a location without one) and the
\* covered percentages of the model
GeoCountryCodes == {"BD", "SG", "IN", ""}
GeoPercentages == {0, 20, 40, 80}

\* the locations of a response, those of all located resources in order
GeoLocations ==
    SeqsUpTo([country : GeoCountryCodes, covered_percentage : GeoPercentages],
             MaxLocations)

\* lines 647-648: the locations that have a country
Located(locs) == SelectSeq(locs, LAMBDA l : l.country # "")

\* the sum of the percentages of the locations of a sequence
RECURSIVE SumPct(_)
SumPct(locs) ==
    IF locs = <<>> THEN 0
    ELSE Head(locs).covered_percentage + SumPct(Tail(locs))

\* lines 649-651: total_pct and bd_pct after the loops
TotalPct(locs) == SumPct(Located(locs))
BdPct(locs) == SumPct(SelectSeq(locs, LAMBDA l : l.country = Home))

\* lines 652-653: country_pcts, as the sequence of its entries in insertion
\* order
RECURSIVE CountryPcts(_, _)
CountryPcts(pcts, locs) ==
    IF locs = <<>> THEN pcts
    ELSE CountryPcts(
             IF Head(locs).country \in {"", Home} THEN pcts
             ELSE AddWeight(pcts, Head(locs).country, Head(locs).covered_percentage),
             Tail(locs))

\* lines 654-659 and 674: breakdown, sorted by percentage in descending
\* order, entries of equal percentage in the order of the response
RECURSIVE SortedBreakdown(_)
SortedBreakdown(locs) ==
    IF locs = <<>> THEN <<>>
    ELSE LET rest == SortedBreakdown(Tail(locs))
             h == Head(locs)
         IN  SelectSeq(rest, LAMBDA l : l.covered_percentage > h.covered_percentage)
             \o <<h>>
             \o SelectSeq(rest, LAMBDA l : l.covered_percentage <= h.covered_percentage)

\* a test that lets a share of exactly 80% count as home
HomeShareAtLeastThreshold(bd_pct, total_pct) == 5 * bd_pct >= 4 * total_pct

\* lines 665-666: bd_pct / total_pct > 0.8; on the percentages of the model
\* the quotient is exact, so the test is 5 * bd_pct > 4 * total_pct
HomeShareAboveThreshold(bd_pct, total_pct) == 5 * bd_pct > 4 * total_pct

\* line 622: fallback
GeoFallback == [dominant_country |-> Home, breakdown |-> <<>>, bd_percentage |-> 100]

\* lines 636-680: the result computed from a body
GeoResult(outcome, locs) ==
    IF outcome # "ok" THEN GeoFallback
    ELSE IF TotalPct(locs) <= 0 THEN GeoFallback
    ELSE LET country_pcts == CountryPcts(<<>>, locs)
             dominant ==
                 IF HomeShareAboveThreshold(BdPct(locs), TotalPct(locs)) THEN Home
                 ELSE IF country_pcts # <<>> THEN FirstHeaviest(country_pcts)
                 ELSE Home
         IN  [dominant_country |-> dominant,
              breakdown |-> SortedBreakdown(Located(locs)),
              bd_percentage |-> BdPct(locs)]

\* fetch_geo_country is not running
GeoParked ==
    /\ geo_outcome = "transport"
    /\ geo_locations = <<>>
    /\ geo_data = GeoFallback
    /\ geo_pc = "parked"

(***************************************************************************)
(* The output files of main() and the interruption of the process          *)
(***************************************************************************)
\* the files main() writes: the record-per-line store and the three files
\* derived from the analysis, in the order they are written
RawFile == "bgp_routes_raw.jsonl"
DerivedFiles == <<"viz_data.json", "asn_names.json", "metadata.json">>
OutputFiles == {RawFile} \cup {DerivedFiles[k] : k \in 1..Len(DerivedFiles)}

\* what a file on disk holds: nothing (no file), what the previous run
\* wrote, nothing yet after open(..., "w") truncated it, the beginning of
\* the new content, the new content
FileContents == {"absent", "previous", "truncated", "partial", "complete"}

\* the steps of main() between which the process can be interrupted
PersistSteps ==
    {"fetch", "raw_open", "raw_write", "classify", "json_open", "json_dump",
     "summary", "done", "aborted"}

\* main() is not writing files
PersistParked ==
    /\ disk = [f \in OutputFiles |-> "absent"]
    /\ n_records = 0
    /\ raw_records = 0
    /\ raw_newline = TRUE
    /\ file_k = 1
    /\ chunks = 0
    /\ classified = FALSE
    /\ persist_pc = "parked"

\* main(): deduplication, analysis and geolocation selection is not running
MainParked ==
    /\ fetched_routes = <<>>
    /\ deduped_routes = <<>>
    /\ intl_ranking = <<>>
    /\ tentative_iig_asns = {}
    /\ main_step = "parked"

\* chunk_prefixes is not running
ChunkParked ==
    /\ prefixes = <<>>
    /\ prefix_chunks = <<>>
    /\ chunk = <<>>
    /\ current_len = 0
    /\ prefix_i = 0
    /\ chunk_pc = "parked"

\* reclassify_iigs.py is not running
ReclassParked ==
    /\ viz_data = <<>>
    /\ asn_names = [a \in {} |-> ""]
    /\ reclassified = [k \in {} |-> 0]
    /\ node_i = 0
    /\ reclass_pc = "parked"

\* the subsystems besides the limiter, the analyzer and the graph builder
\* are not running
IoParked ==
    /\ FetchParked
    /\ PoolParked
    /\ RunParked
    /\ InfoParked
    /\ PeerParked
    /\ GeoParked
    /\ PersistParked
    /\ MainParked
    /\ ChunkParked
    /\ ReclassParked

(***************************************************************************)
(* RateLimiter                                                             *)
(***************************************************************************)
WorkerIds == 1..NumWorkers

\* one second, in ticks: the bucket refills refill_rate tokens per second
TicksPerSecond == RequestsPerSecond * TicksPerToken

\* self.max_tokens = requests_per_second, in token units
max_tokens == RequestsPerSecond * TicksPerToken

\* __init__: a full bucket, last_refill = time.time()
RateLimiterInit ==
    /\ tokens = max_tokens
    /\ last_refill = 0
    /\ clock = 0
    /\ pc = [w \in WorkerIds |-> "idle"]
    /\ now = [w \in WorkerIds |-> 0]
    /\ wake_at = [w \in WorkerIds |-> 0]
    /\ calls = 0
    /\ first_call = -1
    /\ returned = <<>>

\* a run of the workers on the limiter alone
InitRateLimiter ==
    /\ RateLimiterInit
    /\ country_asns = {}
    /\ AnalyzerFresh
    /\ VizParked
    /\ IoParked

\* time passes
Tick ==
    /\ clock < MaxTime
    /\ clock' = clock + 1
    /\ UNCHANGED <<tokens, last_refill, pc, now, wake_at, calls, first_call, returned, anVars, vizVars, ioVars>>

\* a worker calls rate_limiter.acquire(); line 67: now = time.time()
AcquireCall(w) ==
    /\ pc[w] = "idle"
    /\ calls < MaxCalls
    /\ calls' = calls + 1
    /\ first_call' = IF first_call = -1 THEN clock ELSE first_call
    /\ now' = [now EXCEPT ![w] = clock]
    /\ pc' = [pc EXCEPT ![w] = "refill"]
    /\ UNCHANGED <<tokens, last_refill, clock, wake_at, returned, anVars, vizVars, ioVars>>

\* elapsed * refill_rate tokens, in token units: one unit per tick
Refilled(tok, elapsed) == Min(max_tokens, tok + elapsed)

\* lines 68-69: self.tokens = min(max_tokens, tokens + elapsed * refill_rate)
AcquireRefill(w) ==
    /\ pc[w] = "refill"
    /\ tokens' = Refilled(tokens, now[w] - last_refill)
    /\ pc' = [pc EXCEPT ![w] = "stamp"]
    /\ UNCHANGED <<last_refill, clock, now, wake_at, calls, first_call, returned, anVars, vizVars, ioVars>>

\* line 70: self.last_refill = now
AcquireStamp(w) ==
    /\ pc[w] = "stamp"
    /\ last_refill' = now[w]
    /\ pc' = [pc EXCEPT ![w] = "check"]
    /\ UNCHANGED <<tokens, clock, now, wake_at, calls, first_call, returned, anVars, vizVars, ioVars>>

\* lines 72-74: if self.tokens < 1: wait_time = (1 - tokens) / refill_rate;
\* time.sleep(wait_time) starts.  Otherwise go on to line 78.
AcquireCheck(w) ==
    /\ pc[w] = "check"
    /\ IF tokens < TicksPerToken
         THEN /\ wake_at' = [wake_at EXCEPT ![w] = clock + (TicksPerToken - tokens)]
              /\ pc' = [pc EXCEPT ![w] = "sleep"]
         ELSE /\ pc' = [pc EXCEPT ![w] = "consume"]
              /\ UNCHANGED wake_at
    /\ UNCHANGED <<tokens, last_refill, clock, now, calls, first_call, returned, anVars, vizVars, ioVars>>

\* line 74 ends (the sleep lasts at least wait_time); line 75: self.tokens = 0
AcquireWake(w) ==
    /\ pc[w] = "sleep"
    /\ clock >= wake_at[w]
    /\ tokens' = 0
    /\ pc' = [pc EXCEPT ![w] = "restamp"]
    /\ UNCHANGED <<last_refill, clock, now, wake_at, calls, first_call, returned, anVars, vizVars, ioVars>>

\* line 76: self.last_refill = time.time(); acquire() returns
AcquireRestamp(w) ==
    /\ pc[w] = "restamp"
    /\ last_refill' = clock
    /\ returned' = Append(returned, clock)
    /\ pc' = [pc EXCEPT ![w] = "idle"]
    /\ UNCHANGED <<tokens, clock, now, wake_at, calls, first_call, anVars, vizVars, ioVars>>

\* line 78: self.tokens -= 1; acquire() returns
AcquireConsume(w) ==
    /\ pc[w] = "consume"
    /\ tokens' = tokens - TicksPerToken
    /\ returned' = Append(returned, clock)
    /\ pc' = [pc EXCEPT ![w] = "idle"]
    /\ UNCHANGED <<last_refill, clock, now, wake_at, calls, first_call, anVars, vizVars, ioVars>>

RateLimiterNext ==
    \/ Tick
    \/ \E w \in WorkerIds : AcquireCall(w)
    \/ \E w \in WorkerIds : AcquireRefill(w)
    \/ \E w \in WorkerIds : AcquireStamp(w)
    \/ \E w \in WorkerIds : AcquireCheck(w)
    \/ \E w \in WorkerIds : AcquireWake(w)
    \/ \E w \in WorkerIds : AcquireRestamp(w)
    \/ \E w \in WorkerIds : AcquireConsume(w)

SpecRateLimiter == InitRateLimiter /\ [][RateLimiterNext]_vars

(***************************************************************************)
(* RateLimiter: properties                                                 *)
(***************************************************************************)
\* the acquire() calls that returned at tick t or later and before tick u
ReturnsWithin(t, u) == Cardinality({k \in 1..Len(returned) : t <= returned[k] /\ returned[k] < u})

\* C1: the callers of one limiter never take the same token: the bucket is
\* never overdrawn (tokens stays at or above 0), and the calls that returned
\* are covered by the initial bucket plus the tokens refilled since
C1_NoTokenTakenTwice ==
    /\ tokens >= 0
    /\ Len(returned) * TicksPerToken <= max_tokens + clock

\* C2: in any interval of one second at most N acquire() calls return
C2_AtMostNPerSecond ==
    \A t \in 0..MaxTime : ReturnsWithin(t, t + TicksPerSecond) <= RequestsPerSecond

\* C3: M > N calls on one limiter take at least (M - N) / N seconds from the
\* first call to the last return
C3_MinimumElapsed ==
    Len(returned) > RequestsPerSecond =>
        returned[Len(returned)] - first_call
            >= (Len(returned) - RequestsPerSecond) * TicksPerToken

\* C28: an acquire() call never waits for more than the time to refill one
\* token, 1/N seconds, however many callers share the limiter: a caller
\* that is asleep is due to wake within 1/N seconds, so every call returns.
C28_SleepAtMostOneToken ==
    \A w \in WorkerIds :
        pc[w] = "sleep" => wake_at[w] <= clock + TicksPerToken

(***************************************************************************)
(* Path analyzer: analyze_routes and analyze_routes_streaming              *)
(***************************************************************************)
\* an analysis of a fresh input, for one of the country sets
InitAnalyzer ==
    /\ RateLimiterInit
    /\ country_asns \in CountrySets
    /\ AnalyzerFresh
    /\ VizParked
    /\ IoParked

\* analyze_routes, lines 425-432: the loop takes the next record of the
\* list; main() lines 1229-1231 write the same record as a line of the file.
\* The two analyses advance in turn: the list first, then the file.
AnalyzeStep(rt) ==
    /\ Len(routes) < MaxRoutes
    /\ stream_idx = Len(file)
    /\ routes' = Append(routes, rt)
    /\ file' = Append(file, JsonDumps(rt))
    /\ LET acc == LoopStep(rt, country_asns, Accumulators)
       IN  /\ seen' = acc.seen
           /\ outside_counts' = acc.outside_counts
           /\ iig_counts' = acc.iig_counts
           /\ local_isp_counts' = acc.local_isp_counts
           /\ edge_intl' = acc.edge_intl
           /\ edge_domestic' = acc.edge_domestic
           /\ direct_peers' = acc.direct_peers
           /\ valid_obs' = acc.valid_obs
    /\ UNCHANGED <<country_asns, stream, stream_idx, rlVars, vizVars, ioVars>>

\* a streaming loop that skips the line it reports progress on (idx 0)
StreamStepSkipFirst ==
    /\ stream_idx < Len(file)
    /\ LET line == file[stream_idx + 1]
       IN  stream' = IF line = <<>> \/ stream_idx = 0 THEN stream
                     ELSE LoopStep(JsonLoads(line), country_asns, stream)
    /\ stream_idx' = stream_idx + 1
    /\ UNCHANGED <<country_asns, routes, file, seen, outside_counts, iig_counts,
                   local_isp_counts, edge_intl, edge_domestic, direct_peers,
                   valid_obs, rlVars, vizVars, ioVars>>

\* analyze_routes_streaming, lines 461-477: the loop reads the next line,
\* skips it when it is blank, parses it and processes the record
StreamStep ==
    /\ stream_idx < Len(file)
    /\ LET line == file[stream_idx + 1]
       IN  stream' = IF line = <<>> THEN stream
                     ELSE LoopStep(JsonLoads(line), country_asns, stream)
    /\ stream_idx' = stream_idx + 1
    /\ UNCHANGED <<country_asns, routes, file, seen, outside_counts, iig_counts,
                   local_isp_counts, edge_intl, edge_domestic, direct_peers,
                   valid_obs, rlVars, vizVars, ioVars>>

AnalyzerNext ==
    \/ \E rt \in Routes : AnalyzeStep(rt)
    \/ StreamStep

SpecAnalyzer == InitAnalyzer /\ [][AnalyzerNext]_vars

(***************************************************************************)
(* Path analyzer: properties                                               *)
(***************************************************************************)
\* the step consumed a record
Consumed == Len(routes') = Len(routes) + 1

\* the record the step consumed
ConsumedRoute == routes'[Len(routes')]

\* path[i] is a foreign hop and every hop after it is in the country
BorderAt(path, ca, i) ==
    /\ i \in 1..(Len(path) - 1)
    /\ path[i] \notin ca
    /\ \A j \in (i + 1)..Len(path) : path[j] \in ca

\* the counter that holds n for key k and nothing else
Only(k, n) == [e \in Asns \X Asns |-> IF e = k THEN n ELSE 0]

\* what the end-to-end scenario is said to produce
ScenarioOutcome ==
    LET path == CleanPath(ScenarioRoute.path)
    IN  /\ path = <<"64500", "100", "200">>
        /\ OutsideOf(path, country_asns) = "64500"
        /\ GatewayOf(path, country_asns) = "100"
        /\ OriginOf(path) = "200"
        /\ edge_intl = Only(<<"64500", "100">>, 1)
        /\ edge_domestic = Only(<<"200", "100">>, 1)

\* C6 as stated: the scenario record alone, with country set {100}, gives the
\* cleaned path [64500,100,200], outside 64500, gateway 100, origin 200 and
\* exactly the edges (64500,100) and (200,100), each counted once
C6_ScenarioCountry100 ==
    (routes = <<ScenarioRoute>> /\ country_asns = {"100"}) => ScenarioOutcome

\* C6 amended: the scenario record alone, with country set {100, 200}, gives
\* the cleaned path [64500,100,200], outside 64500, gateway 100, origin 200
\* and exactly the edges (64500,100) and (200,100), each counted once
C6_ScenarioCountry100And200 ==
    (routes = <<ScenarioRoute>> /\ country_asns = {"100", "200"}) => ScenarioOutcome

C6_Witness ==
    /\ routes = <<ScenarioRoute>>
    /\ country_asns = {"100", "200"}
    /\ valid_obs = 1

\* C7: a valid, not yet seen record whose cleaned path has a foreign hop A
\* followed by the in-country hops B..C up to the origin adds 1 to
\* edge_intl[(A,B)], adds 1 to edge_domestic[(C,B)] when C differs from B,
\* and changes no other edge counter
C7_BorderEdges ==
    [][ Consumed =>
          LET rt == ConsumedRoute
              path == CleanPath(rt.path)
          IN  (~Rejected(rt) /\ KeyOf(rt) \notin seen) =>
                \A i \in 1..Len(path) :
                    BorderAt(path, country_asns, i) =>
                        LET A == path[i]
                            B == path[i + 1]
                            C == path[Len(path)]
                        IN  /\ edge_intl' = Incr(edge_intl, <<A, B>>)
                            /\ edge_domestic' = IF C # B
                                                  THEN Incr(edge_domestic, <<C, B>>)
                                                  ELSE edge_domestic ]_vars

\* two accepted records through gateway 100, one originated by 200 and one
\* by the gateway itself
C7_Witness ==
    /\ Len(routes) = 2
    /\ valid_obs = 2
    /\ country_asns = {"100", "200"}
    /\ edge_intl[<<"64500", "100">>] = 2
    /\ edge_domestic[<<"200", "100">>] = 1
    /\ local_isp_counts["100"] = 1

\* every cleaned hop of the record is in the country
AllInCountry(rt, ca) ==
    LET path == CleanPath(rt.path) IN \A j \in 1..Len(path) : path[j] \in ca

\* C8: a record whose cleaned path lies wholly in the country leaves the
\* edge counters and the outside / gateway / local role counters unchanged
C8_DomesticPathNoEdges ==
    [][ (Consumed /\ AllInCountry(ConsumedRoute, country_asns)) =>
          /\ edge_intl' = edge_intl
          /\ edge_domestic' = edge_domestic
          /\ outside_counts' = outside_counts
          /\ iig_counts' = iig_counts
          /\ local_isp_counts' = local_isp_counts ]_vars

\* an accepted record whose two hops are both in the country
C8_Witness ==
    /\ Len(routes) = 1
    /\ valid_obs = 1
    /\ Len(CleanPath(routes[1].path)) = 2
    /\ AllInCountry(routes[1], country_asns)

\* the keys of the valid records consumed so far
ValidKeys == {KeyOf(routes[k]) : k \in {j \in 1..Len(routes) : ~Rejected(routes[j])}}

\* C9: in whatever order the records arrive, valid_obs is the number of
\* distinct (target_prefix, source_id) keys among the valid records
C9_ValidObsCountsKeys == valid_obs = Cardinality(ValidKeys)

\* two valid records with one key and different paths, counted once
C9_Witness ==
    /\ Len(routes) = 2
    /\ ~Rejected(routes[1])
    /\ ~Rejected(routes[2])
    /\ KeyOf(routes[1]) = KeyOf(routes[2])
    /\ routes[1].path # routes[2].path
    /\ valid_obs = 1

C29_RejectedChangesNothing ==
    [][ (Consumed /\ (Rejected(ConsumedRoute) \/ KeyOf(ConsumedRoute) \in seen)) =>
          /\ seen' = seen
          /\ outside_counts' = outside_counts
          /\ iig_counts' = iig_counts
          /\ local_isp_counts' = local_isp_counts
          /\ edge_intl' = edge_intl
          /\ edge_domestic' = edge_domestic
          /\ direct_peers' = direct_peers
          /\ valid_obs' = valid_obs ]_vars

\* a record without a path was rejected and a later record with the same
\* target and source id was accepted
C29_Witness ==
    /\ Len(routes) = 2
    /\ Rejected(routes[1])
    /\ ~Falsy(routes[1].target_prefix)
    /\ ~Falsy(routes[1].source_id)
    /\ KeyOf(routes[2]) = KeyOf(routes[1])
    /\ seen = {KeyOf(routes[2])}
    /\ valid_obs = 1

\* C30: every key (o, g) of edge_intl has o outside the country set and g
\* inside it, every key (c, g) of edge_domestic has c and g inside it and
\* c different from g, and no pair is a key of both counters.
C30_EdgeKeysWellFormed ==
    /\ \A e \in Present(edge_intl) : e[1] \notin country_asns /\ e[2] \in country_asns
    /\ \A e \in Present(edge_domestic) :
          e[1] \in country_asns /\ e[2] \in country_asns /\ e[1] # e[2]
    /\ Present(edge_intl) \cap Present(edge_domestic) = {}

\* two international edges and a domestic edge have been counted
C30_Witness ==
    /\ Cardinality(Present(edge_intl)) = 2
    /\ Present(edge_domestic) # {}

(***************************************************************************)
(* build_viz_data                                                          *)
(***************************************************************************)
\* build_viz_data is called with the analysis of some observations, a
\* license registry and the geolocation recorded for each ASN
InitViz ==
    /\ RateLimiterInit
    /\ country_asns \in CountrySets
    /\ AnalyzerFresh
    /\ \E paths \in SeqsUpTo(VizPaths, MaxObservations) :
          analysis = AnalyzeRoutes(Observations(paths), country_asns)
    /\ asn_info \in [Asns -> GeoCountries]
    /\ btrc_licensed_asns \in SUBSET Asns
    /\ VizFresh
    /\ IoParked

\* lines 1000-1008: select the top edges, collect the gateways that have
\* domestic customers
VizSelect ==
    /\ viz_pc = "start"
    /\ top_intl_edges' \in MostCommon(analysis.edge_intl, TopIntl)
    /\ top_domestic_edges' \in MostCommon(analysis.edge_domestic, TopDomestic)
    /\ iigs_with_domestic' =
          {top_domestic_edges'[i][1][2] : i \in 1..Len(top_domestic_edges')}
    /\ node_map' = <<>>
    /\ edges' = <<>>
    /\ viz_pc' = "intl"
    /\ UNCHANGED <<analysis, asn_info, btrc_licensed_asns, rlVars, anVars, ioVars>>

\* international edges already in the edge list
IntlDone == Cardinality({i \in 1..Len(edges) : edges[i].type = "international"})

\* lines 1055-1058: one iteration of the loop over the international edges
VizIntlEdge ==
    /\ viz_pc = "intl"
    /\ IntlDone < Len(top_intl_edges)
    /\ LET e == top_intl_edges[IntlDone + 1]
           outside == e[1][1]
           iig == e[1][2]
       IN  /\ node_map' = EnsureNode(EnsureNode(node_map, outside, "outside"), iig, "iig")
           /\ edges' = Append(edges, [source |-> outside, target |-> iig,
                                      count |-> e[2], type |-> "international"])
    /\ UNCHANGED <<analysis, asn_info, btrc_licensed_asns, top_intl_edges,
                   top_domestic_edges, iigs_with_domestic, viz_pc, rlVars, anVars, ioVars>>

\* the loop over the international edges ends
VizIntlEnd ==
    /\ viz_pc = "intl"
    /\ IntlDone = Len(top_intl_edges)
    /\ viz_pc' = "domestic"
    /\ UNCHANGED <<analysis, asn_info, btrc_licensed_asns, top_intl_edges,
                   top_domestic_edges, iigs_with_domestic, node_map, edges, rlVars, anVars, ioVars>>

\* lines 1061-1064: one iteration of the loop over the domestic edges
VizDomesticEdge ==
    /\ viz_pc = "domestic"
    /\ Len(edges) - IntlDone < Len(top_domestic_edges)
    /\ LET e == top_domestic_edges[Len(edges) - IntlDone + 1]
           local_company == e[1][1]
           iig == e[1][2]
       IN  /\ node_map' = EnsureNode(EnsureNode(node_map, local_company, "local-company"),
                                     iig, "iig")
           /\ edges' = Append(edges, [source |-> local_company, target |-> iig,
                                      count |-> e[2], type |-> "domestic"])
    /\ UNCHANGED <<analysis, asn_info, btrc_licensed_asns, top_intl_edges,
                   top_domestic_edges, iigs_with_domestic, viz_pc, rlVars, anVars, ioVars>>

\* lines 1066-1085: the domestic loop ends; traffic per node, then rank and
\* percentage per role; percentage is the fraction num / den
VizFinish ==
    /\ viz_pc = "domestic"
    /\ Len(edges) - IntlDone = Len(top_domestic_edges)
    /\ LET withTraffic == [i \in 1..Len(node_map) |->
                             [node_map[i] EXCEPT !.traffic = TrafficOf(node_map[i].asn)]]
       IN  node_map' = [i \in 1..Len(node_map) |->
                          [asn |-> withTraffic[i].asn,
                           type |-> withTraffic[i].type,
                           licensed |-> withTraffic[i].licensed,
                           geo_country |-> withTraffic[i].geo_country,
                           traffic |-> withTraffic[i].traffic,
                           rank |-> RankOf(withTraffic, i),
                           percentage |-> [num |-> withTraffic[i].traffic * 100,
                                           den |-> TotalIntlTraffic]]]
    /\ viz_pc' = "done"
    /\ UNCHANGED <<analysis, asn_info, btrc_licensed_asns, top_intl_edges,
                   top_domestic_edges, iigs_with_domestic, edges, rlVars, anVars, ioVars>>

VizNext ==
    \/ VizSelect
    \/ VizIntlEdge
    \/ VizIntlEnd
    \/ VizDomesticEdge
    \/ VizFinish

SpecViz == InitViz /\ [][VizNext]_vars

(***************************************************************************)
(* build_viz_data: properties                                              *)
(***************************************************************************)
\* the role taxonomy
Roles == {"outside", "iig", "detected-iig", "offshore-enterprise", "offshore-gateway",
          "local-company"}

\* the endpoints of the selected edges
SelectedEndpoints ==
    UNION {{top_intl_edges[i][1][1], top_intl_edges[i][1][2]} : i \in 1..Len(top_intl_edges)}
      \cup UNION {{top_domestic_edges[i][1][1], top_domestic_edges[i][1][2]} :
                    i \in 1..Len(top_domestic_edges)}

\* the nodes of an ASN
NodesOf(asn) == {i \in 1..Len(node_map) : node_map[i].asn = asn}

\* C4: after build_viz_data every node whose ASN is in the license registry
\* has the role 'iig', whatever edges it appears in
C4_LicensedAlwaysIig ==
    viz_pc = "done" =>
        \A i \in 1..Len(node_map) :
            node_map[i].asn \in btrc_licensed_asns => node_map[i].type = "iig"

\* C5: after build_viz_data every endpoint of a selected edge has exactly one
\* node, every node has one of the six roles, and a node has the role 'iig'
\* only if its ASN is in the license registry
C5_OneRolePerEndpoint ==
    viz_pc = "done" =>
        /\ \A asn \in SelectedEndpoints : Cardinality(NodesOf(asn)) = 1
        /\ \A i \in 1..Len(node_map) :
              /\ node_map[i].type \in Roles
              /\ node_map[i].type = "iig" => node_map[i].asn \in btrc_licensed_asns

\* a finished graph in which an unlicensed gateway was reclassified and an
\* ASN is the source of one selected edge and the target of another
C5_Witness ==
    /\ viz_pc = "done"
    /\ \E i \in 1..Len(node_map) :
          node_map[i].type = "detected-iig" /\ node_map[i].asn \notin btrc_licensed_asns
    /\ \E i, j \in 1..Len(edges) : i # j /\ edges[i].target = edges[j].source

\* the nodes of a role
Members(role) == {i \in 1..Len(node_map) : node_map[i].type = role}

\* the sum of f over the members of the finite set S
RECURSIVE SumOver(_, _)
SumOver(f, S) ==
    IF S = {} THEN 0
    ELSE LET x == CHOOSE y \in S : TRUE IN f[x] + SumOver(f, S \ {x})

\* the total count of the emitted international edges
IntlEdgeTotal ==
    SumOver([i \in 1..Len(edges) |-> edges[i].count],
            {i \in 1..Len(edges) : edges[i].type = "international"})

DomesticTargets == {top_domestic_edges[i][1][2] : i \in 1..Len(top_domestic_edges)}

\* C23: after build_viz_data every target of a selected domestic edge has a
\* role that has downstream customers ('iig', offshore-gateway or
\* detected-iig), so no local-company or offshore-enterprise node is the
\* target of a selected domestic edge.
C23_DomesticTargetsAreGateways ==
    viz_pc = "done" =>
        \A i \in 1..Len(node_map) :
            node_map[i].asn \in DomesticTargets =>
                node_map[i].type \in {"iig", "offshore-gateway", "detected-iig"}

\* the ASN's node was created by ensure_node(asn, "iig"): the first emitted
\* edge that has the ASN has it as its target
CreatedAsTentativeGateway(asn) ==
    \E k \in 1..Len(edges) :
        /\ edges[k].target = asn
        /\ edges[k].source # asn
        /\ \A j \in 1..(k - 1) : edges[j].source # asn /\ edges[j].target # asn

\* the ASN is registered in the country and located abroad
RegisteredAbroad(asn) ==
    asn \in country_asns /\ asn_info[asn] # "" /\ asn_info[asn] # "BD"

EdgesOfType(t) == {i \in 1..Len(edges) : edges[i].type = t}

\* the (source, target) pairs of the emitted edges of a class
EmittedPairs(t) == {<<edges[i].source, edges[i].target>> : i \in EdgesOfType(t)}

\* the emitted edges of a class are among the most frequent of a counter:
\* each carries the count of its pair, and no pair that was left out has a
\* larger count than an emitted one
TopOf(counter, t) ==
    /\ \A i \in EdgesOfType(t) :
          /\ <<edges[i].source, edges[i].target>> \in Present(counter)
          /\ edges[i].count = counter[<<edges[i].source, edges[i].target>>]
    /\ \A i \in EdgesOfType(t) : \A k \in Present(counter) \ EmittedPairs(t) :
          edges[i].count >= counter[k]

\* C34: build_viz_data emits at most K_intl international and at most K_dom
\* domestic edges (TopIntl and TopDomestic here), each (source, target) pair
\* at most once, and every emitted edge of a class has a count greater than
\* or equal to the count of every edge of that class that was not emitted.
C34_TopEdgesEmitted ==
    viz_pc = "done" =>
        /\ Cardinality(EdgesOfType("international")) <= TopIntl
        /\ Cardinality(EdgesOfType("domestic")) <= TopDomestic
        /\ \A i, j \in 1..Len(edges) :
              i # j => <<edges[i].source, edges[i].target>> # <<edges[j].source, edges[j].target>>
        /\ TopOf(analysis.edge_intl, "international")
        /\ TopOf(analysis.edge_domestic, "domestic")

\* a finished graph whose analysis had an international edge that was cut, of
\* a smaller count than the emitted one, and two emitted domestic edges
C34_Witness ==
    /\ viz_pc = "done"
    /\ \E i \in EdgesOfType("international") :
          \E k \in Present(analysis.edge_intl) \ EmittedPairs("international") :
              edges[i].count > analysis.edge_intl[k]
    /\ Cardinality(EdgesOfType("domestic")) = 2

\* the emitted edges an ASN is an endpoint of
EdgesAt(asn) == {i \in 1..Len(edges) : edges[i].source = asn \/ edges[i].target = asn}

\* C35: after build_viz_data each node's traffic equals the sum of the counts
\* of the emitted edges in which it is source or target, so the sum of all
\* node traffic equals twice the sum of all emitted edge counts.
C35_TrafficIsEdgeSum ==
    viz_pc = "done" =>
        /\ \A i \in 1..Len(node_map) :
              node_map[i].traffic =
                  SumOver([k \in 1..Len(edges) |-> edges[k].count], EdgesAt(node_map[i].asn))
        /\ SumOver([i \in 1..Len(node_map) |-> node_map[i].traffic], 1..Len(node_map))
              = 2 * SumOver([k \in 1..Len(edges) |-> edges[k].count], 1..Len(edges))

\* a finished graph with a node that is the target of one emitted edge and
\* the source of another, both of which carry traffic
C35_Witness ==
    /\ viz_pc = "done"
    /\ \E i \in 1..Len(node_map) : \E k, l \in 1..Len(edges) :
          /\ edges[k].target = node_map[i].asn
          /\ edges[l].source = node_map[i].asn
          /\ node_map[i].traffic = edges[k].count + edges[l].count
          /\ edges[k].count > 1

(***************************************************************************)
(* Path analyzer: the accumulators as a whole                              *)
(***************************************************************************)
\* sum(counter.values())
Total(counter) == SumOver(counter, DOMAIN counter)

\* the relations between the accumulators of the list analysis
AccumulatorsConsistent ==
    /\ valid_obs = Cardinality(seen)
    /\ Total(edge_intl) = Total(outside_counts)
    /\ Total(edge_intl) = Total(iig_counts)
    /\ Total(edge_intl) = Total(local_isp_counts)
    /\ \A g \in Asns :
          iig_counts[g] = SumOver([o \in Asns |-> edge_intl[<<o, g>>]], Asns)
    /\ Total(edge_domestic) <= Total(edge_intl)
    /\ Total(edge_intl) <= valid_obs

\* no key of a counter has a smaller count after the step
Grows(before, after) == \A k \in DOMAIN before : before[k] <= after[k]

\* a step takes nothing away from the accumulators
NoCounterDecreases ==
    /\ seen \subseteq seen'
    /\ valid_obs <= valid_obs'
    /\ Grows(outside_counts, outside_counts')
    /\ Grows(iig_counts, iig_counts')
    /\ Grows(local_isp_counts, local_isp_counts')
    /\ Grows(edge_intl, edge_intl')
    /\ Grows(edge_domestic, edge_domestic')
    /\ Grows(direct_peers, direct_peers')

\* C37: after any sequence of processed records valid_obs equals the size of
\* `seen`; the total of edge_intl equals the total of outside_counts, of
\* iig_counts and of local_isp_counts; iig_counts[g] equals the sum of
\* edge_intl[(o,g)] over o; the total of edge_domestic is at most the total
\* of edge_intl, which is at most valid_obs; and no counter ever decreases.
C37_AccumulatorsConsistent ==
    []AccumulatorsConsistent /\ [][NoCounterDecreases]_vars

\* two accepted records, one that stays inside the country and counts no
\* edge and one that counts an international and a domestic edge
C37_Witness ==
    /\ Len(routes) >= 2
    /\ valid_obs = 2
    /\ Total(edge_intl) = 1
    /\ Total(edge_domestic) = 1
    /\ Total(direct_peers) > 2

\* the orders a list of n records can come in
Orders(n) == {f \in [1..n -> 1..n] : \A i, j \in 1..n : i # j => f[i] # f[j]}

\* the list in the order f
Permuted(rts, f) == [i \in 1..Len(rts) |-> rts[f[i]]]

\* C39: the international and domestic edge counters returned by
\* analyze_routes are the same for every permutation of the input records,
\* including inputs in which two records share a (target, source id) key but
\* carry different paths.
C39_OrderIndependent ==
    \A f \in Orders(Len(routes)) :
        LET other == AnalyzeRoutes(Permuted(routes, f), country_asns)
        IN  /\ other.edge_intl = edge_intl
            /\ other.edge_domestic = edge_domestic

(***************************************************************************)
(* Wave loops: fetch_bgp_routes, fetch_announced_prefixes, fetch_asn_info  *)
(* and fetch_geo_countries                                                 *)
(***************************************************************************)
\* one of the four loops is entered with some units to fetch
InitFetch ==
    /\ RateLimiterInit
    /\ country_asns = {}
    /\ AnalyzerFresh
    /\ VizParked
    /\ PeerParked
    /\ InfoParked
    /\ RunParked
    /\ PoolParked
    /\ GeoParked
    /\ PersistParked
    /\ MainParked
    /\ ChunkParked
    /\ ReclassParked
    /\ site \in Sites
    /\ total_batches \in 1..MaxUnits
    /\ wave_i = 0
    /\ main_pc = "submit"
    /\ unit_pc = [u \in Units |-> "idle"]
    /\ attempt = [u \in Units |-> 0]
    /\ resp = [u \in Units |-> "none"]
    /\ wait = [u \in Units |-> 0]
    /\ tfails = [u \in Units |-> 0]
    /\ future = [u \in Units |-> "none"]
    /\ collected = {}
    /\ all_routes = <<>>
    /\ completed = 0
    /\ failed = 0

\* the executor.submit calls of one wave: every unit of the wave gets a
\* worker thread (max_workers = concurrency)
SubmitWave ==
    /\ main_pc = "submit"
    /\ wave_i < total_batches
    /\ unit_pc' = [u \in Units |-> IF u \in Wave(wave_i) THEN "ready" ELSE unit_pc[u]]
    /\ main_pc' = "collect"
    /\ UNCHANGED <<site, total_batches, wave_i, attempt, resp, wait, tfails, future, collected,
                   all_routes, completed, failed, notFetchVars>>

\* one attempt of a unit's worker: acquire(), the request, and the handling
\* of what came back.  The worker's locals end with the worker: `attempt`
\* and the count of failures read 0 again once it has returned or raised.
Attempt(u, r) ==
    /\ unit_pc[u] = "ready"
    /\ LET o == Worker(site, attempt[u], r)
       IN  /\ unit_pc' = [unit_pc EXCEPT ![u] = o.pc]
           /\ wait' = [wait EXCEPT ![u] = o.wait]
           /\ future' = [future EXCEPT ![u] = o.future]
           /\ attempt' = [attempt EXCEPT ![u] = IF o.pc = "sleep" THEN @ ELSE 0]
           /\ tfails' = [tfails EXCEPT ![u] = IF o.pc = "sleep" /\ r = "transport"
                                                THEN @ + 1 ELSE 0]
    /\ resp' = [resp EXCEPT ![u] = r]
    /\ UNCHANGED <<site, total_batches, wave_i, main_pc, collected, all_routes,
                   completed, failed, notFetchVars>>

\* time.sleep returns and the `for attempt` loop goes round
Wake(u) ==
    /\ unit_pc[u] = "sleep"
    /\ unit_pc' = [unit_pc EXCEPT ![u] = "ready"]
    /\ attempt' = [attempt EXCEPT ![u] = @ + 1]
    /\ wait' = [wait EXCEPT ![u] = 0]
    /\ resp' = [resp EXCEPT ![u] = "none"]
    /\ UNCHANGED <<site, total_batches, wave_i, main_pc, tfails, future, collected, all_routes,
                   completed, failed, notFetchVars>>

\* a worker has returned or raised
Final(u) == unit_pc[u] \in {"done", "raised"}

\* the body of `for future in as_completed(futures)`.  In the batch and the
\* prefix loop future.result() re-raises a worker's exception and nothing
\* catches it; the overview loop counts it as failed; the geolocation loop
\* stores the fallback and counts the unit as completed.
Collect(u) ==
    /\ main_pc = "collect"
    /\ u \in Wave(wave_i) \ collected
    /\ Final(u)
    /\ collected' = collected \cup {u}
    /\ IF site \in {"routes", "prefixes"}
         THEN CASE future[u] = "raised" ->
                     /\ main_pc' = "unwind"
                     /\ UNCHANGED <<all_routes, completed, failed>>
                [] future[u] = "success" ->
                     /\ all_routes' = all_routes \o RoutesOf(u)
                     /\ completed' = completed + 1
                     /\ UNCHANGED <<main_pc, failed>>
                [] OTHER ->
                     /\ failed' = failed + 1
                     /\ UNCHANGED <<main_pc, all_routes, completed>>
         ELSE IF site = "overview" /\ future[u] = "raised"
                THEN /\ failed' = failed + 1
                     /\ UNCHANGED <<main_pc, all_routes, completed>>
                ELSE /\ completed' = completed + 1
                     /\ UNCHANGED <<main_pc, all_routes, failed>>
    /\ UNCHANGED <<site, total_batches, wave_i, unit_pc, attempt, resp, wait, tfails, future,
                   notFetchVars>>

\* a loop that lets the next wave start at once
WaveSettledNoWait(i) == TRUE

\* the as_completed loop has gone through every future of the wave, so the
\* `with ThreadPoolExecutor` block can be left
WaveSettled(i) == Wave(i) \subseteq collected

\* the end of the `with` block: the next round of `for i in range(...)`
EndWave ==
    /\ main_pc = "collect"
    /\ WaveSettled(wave_i)
    /\ wave_i' = wave_i + WaveSize
    /\ main_pc' = "submit"
    /\ UNCHANGED <<site, total_batches, unit_pc, attempt, resp, wait, tfails, future, collected,
                   all_routes, completed, failed, notFetchVars>>

\* an exception passes through the `with` block: the executor's shutdown
\* waits for the workers of the wave, then the function raises
Unwound ==
    /\ main_pc = "unwind"
    /\ \A u \in Wave(wave_i) : Final(u)
    /\ main_pc' = "raised"
    /\ UNCHANGED <<site, total_batches, wave_i, unit_pc, attempt, resp, wait, tfails, future,
                   collected, all_routes, completed, failed, notFetchVars>>

\* the loop is over: the function returns what it gathered
FetchReturn ==
    /\ main_pc = "submit"
    /\ wave_i >= total_batches
    /\ main_pc' = "returned"
    /\ UNCHANGED <<site, total_batches, wave_i, unit_pc, attempt, resp, wait, tfails, future,
                   collected, all_routes, completed, failed, notFetchVars>>

FetchNext ==
    \/ SubmitWave
    \/ \E u \in Units, r \in Responses : Attempt(u, r)
    \/ \E u \in Units : Wake(u)
    \/ \E u \in Units : Collect(u)
    \/ EndWave
    \/ Unwound
    \/ FetchReturn

SpecFetch == InitFetch /\ [][FetchNext]_vars

(***************************************************************************)
(* Wave loops: claims                                                      *)
(***************************************************************************)
\* the units whose worker returned the success result
Succeeded == {u \in 1..total_batches : future[u] = "success"}

\* the records of a list, as a set
Records(s) == {s[k] : k \in 1..Len(s)}

\* the wave a unit belongs to
WaveOf(u) == (u - 1) \div WaveSize

\* the unit's worker has issued its first request
Started(u) == unit_pc[u] \notin {"idle", "ready"} \/ attempt[u] > 0

\* C11: in the batch loop and the prefix loop, whatever the request of a
\* unit does (retries exhausted, an error status, a malformed rate-limit
\* hint or body), the function does not raise: it returns with every unit
\* handled, and the units whose last response was not a good one are the
\* ones counted as failed.
C11_FailuresIsolated ==
    site \in {"routes", "prefixes"} =>
        /\ main_pc \notin {"unwind", "raised"}
        /\ main_pc = "returned" =>
              /\ collected = 1..total_batches
              /\ failed = Cardinality({u \in 1..total_batches : resp[u] # "ok"})
              /\ completed + failed = total_batches

\* C12: when fetch_bgp_routes returns, all_routes holds exactly the records
\* of the batches whose result was success, each whole and once; a success
\* result comes only from a good response, so a failed batch contributes no
\* record and none contributes part of a response.
C12_OnlyWholeSuccessfulBatches ==
    site = "routes" /\ main_pc = "returned" =>
        /\ Records(all_routes) = UNION {Records(RoutesOf(u)) : u \in Succeeded}
        /\ Len(all_routes) = 2 * Cardinality(Succeeded)
        /\ \A u \in 1..total_batches : future[u] = "success" <=> resp[u] = "ok"
        /\ completed = Cardinality(Succeeded)

\* fetch_bgp_routes has returned from three batches, of which one succeeded,
\* one met a transport failure on its last attempt and one a 429
C12_Witness ==
    /\ site = "routes"
    /\ main_pc = "returned"
    /\ total_batches = 3
    /\ \E u \in 1..total_batches : future[u] = "success"
    /\ \E u \in 1..total_batches : future[u] = "failure" /\ resp[u] = "transport"
    /\ \E u \in 1..total_batches : future[u] = "failure" /\ resp[u] = "rate_hint"

\* C13: in each of the four wave loops, no unit of a later wave has issued
\* its first request while a unit of an earlier wave has not yet returned
\* its final result.
C13_WaveBarrier ==
    \A u, v \in 1..total_batches :
        WaveOf(u) < WaveOf(v) /\ Started(v) => Final(u)

\* a unit of the second wave is between two attempts after a unit of the
\* first wave ran out of retries
C13_Witness ==
    \E u, v \in 1..total_batches :
        /\ WaveOf(u) < WaveOf(v)
        /\ future[u] \in {"failure", "fallback"}
        /\ Started(v)
        /\ ~Final(v)

\* C15: a worker of the batch loop or the prefix loop that sleeps after the
\* k-th consecutive transport failure sleeps 2 * 2^(k-1) seconds: 2, 4, 8.
C15_BackoffFromTwoSeconds ==
    site \in {"routes", "prefixes"} =>
        \A u \in 1..total_batches :
            unit_pc[u] = "sleep" /\ resp[u] = "transport" =>
                wait[u] = 2 * 2 ^ (tfails[u] - 1)

\* C16: at every call site, a 429 on an attempt that has retries left sends
\* the worker to sleep for the Retry-After delay when the server gave one,
\* and for a fixed delay when it gave none, before the next attempt; the
\* attempts never exceed the site's retry bound.
C16_RateLimitHonoured ==
    \A u \in 1..total_batches :
        /\ attempt[u] <= MaxRetries(site)
        /\ resp[u] \in {"rate_hint", "rate_nohint"} /\ attempt[u] < MaxRetries(site) =>
              /\ unit_pc[u] = "sleep"
              /\ resp[u] = "rate_hint" => wait[u] = RetryAfterHint
              /\ resp[u] = "rate_nohint" => wait[u] > 0

\* the units whose last response carried no data
NoData == {u \in 1..total_batches : resp[u] # "ok"}

\* C25: when the prefix stage, the batch stage or the ASN overview stage
\* returns, every submitted unit has been counted exactly once, completed +
\* failed is the number of units, and failed is the number of units that
\* produced no data after their retries.
C25_StageCountsAddUp ==
    site \in {"prefixes", "routes", "overview"} /\ main_pc = "returned" =>
        /\ collected = 1..total_batches
        /\ completed + failed = total_batches
        /\ failed = Cardinality(NoData)

\* C27: whatever mix of good responses, 429s and failed requests a batch
\* meets, fetch_batch_with_retry makes at most max_retries + 1 = 4 attempts
\* (numbered 0 to 3) and then returns a result marked success or failure,
\* never an exception; a 429 on the last attempt ends as failure.
C27_BatchWorkerReturns ==
    site = "routes" =>
        \A u \in 1..total_batches :
            /\ attempt[u] <= 3
            /\ resp[u] # "bad_body" => unit_pc[u] # "raised"
            /\ unit_pc[u] = "done" => future[u] \in {"success", "failure"}
            /\ unit_pc[u] = "done" /\ resp[u] \in RateLimited => future[u] = "failure"

(***************************************************************************)
(* The worker pools: requests in flight                                    *)
(***************************************************************************)
\* a script starts with some units to fetch
InitPool ==
    /\ RateLimiterInit
    /\ country_asns = {}
    /\ AnalyzerFresh
    /\ VizParked
    /\ PeerParked
    /\ InfoParked
    /\ RunParked
    /\ FetchParked
    /\ GeoParked
    /\ PersistParked
    /\ MainParked
    /\ ChunkParked
    /\ ReclassParked
    /\ script \in Scripts
    /\ pending \in 1..MaxTasks
    /\ queued = 0
    /\ acquiring = 0
    /\ in_flight = 0

\* `with ThreadPoolExecutor(...)`: executor.submit for every unit of the
\* slice, once the block of the slice before has been left
PoolSubmit ==
    /\ pending > 0
    /\ queued + acquiring + in_flight = 0
    /\ queued' = SubmitCount(script, pending)
    /\ pending' = pending - SubmitCount(script, pending)
    /\ UNCHANGED <<script, acquiring, in_flight, notPoolVars>>

\* the executor starts a thread for a queued unit while it has fewer than
\* max_workers threads; the worker begins with rate_limiter.acquire()
PoolStart ==
    /\ queued > 0
    /\ acquiring + in_flight < PoolSize(script)
    /\ queued' = queued - 1
    /\ acquiring' = acquiring + 1
    /\ UNCHANGED <<script, pending, in_flight, notPoolVars>>

\* acquire() has returned and the worker calls requests.get
PoolRequest ==
    /\ acquiring > 0
    /\ acquiring' = acquiring - 1
    /\ in_flight' = in_flight + 1
    /\ UNCHANGED <<script, pending, queued, notPoolVars>>

\* requests.get comes back and the worker tries again
PoolRetry ==
    /\ in_flight > 0
    /\ script # "reprocess_3layer"
    /\ in_flight' = in_flight - 1
    /\ acquiring' = acquiring + 1
    /\ UNCHANGED <<script, pending, queued, notPoolVars>>

\* requests.get comes back and the worker returns
PoolFinish ==
    /\ in_flight > 0
    /\ in_flight' = in_flight - 1
    /\ UNCHANGED <<script, pending, queued, acquiring, notPoolVars>>

PoolNext ==
    \/ PoolSubmit
    \/ PoolStart
    \/ PoolRequest
    \/ PoolRetry
    \/ PoolFinish

SpecPool == InitPool /\ [][PoolNext]_vars

\* C14: in every script, at every instant, at most 8 requests (the
\* service's concurrency ceiling) are in flight.
C14_AtMostEightInFlight == in_flight <= CONCURRENCY

(***************************************************************************)
(* The runs of the scripts                                                 *)
(***************************************************************************)
\* a script is started
InitRun ==
    /\ RateLimiterInit
    /\ country_asns = {}
    /\ AnalyzerFresh
    /\ VizParked
    /\ PeerParked
    /\ InfoParked
    /\ FetchParked
    /\ PoolParked
    /\ GeoParked
    /\ PersistParked
    /\ MainParked
    /\ ChunkParked
    /\ ReclassParked
    /\ run_script \in RunScripts
    /\ stage = "country"
    /\ acquired = FALSE
    /\ reqs = 0
    /\ log = {}
    /\ written = {}
    /\ country_failed = FALSE

\* requests.get at the current stage
Requested == log \cup {[endpoint |-> stage, acquired |-> acquired]}

\* the country-resource request: requests.get without acquire().  When it
\* fails, get_country_resources calls sys.exit(1); reprocess_3layer.py goes
\* on with the in-country set of the viz_data.json of an earlier run, and
\* stops with an uncaught error only when that file is missing.
RunCountry(ok, viz_exists) ==
    /\ stage = "country"
    /\ log' = Requested
    /\ country_failed' = ~ok
    /\ stage' = IF ok \/ (run_script = "reprocess_3layer" /\ viz_exists)
                  THEN NextStage(run_script, stage)
                  ELSE "exit"
    /\ UNCHANGED <<run_script, acquired, reqs, written, notRunVars>>

\* rate_limiter.acquire() returns in a worker of a wave loop
RunAcquire ==
    /\ stage \in LimitedStages
    /\ ~acquired
    /\ reqs < MaxStageRequests
    /\ acquired' = TRUE
    /\ UNCHANGED <<run_script, stage, reqs, log, written, country_failed, notRunVars>>

\* requests.get in a worker of a wave loop, first attempt or retry
RunRequest ==
    /\ stage \in LimitedStages
    /\ acquired
    /\ log' = Requested
    /\ acquired' = FALSE
    /\ reqs' = reqs + 1
    /\ UNCHANGED <<run_script, stage, written, country_failed, notRunVars>>

\* requests.get of a PeeringDB batch, first or after a 429
RunPeeringRequest ==
    /\ stage \in PeeringStages
    /\ reqs < MaxStageRequests
    /\ log' = Requested
    /\ reqs' = reqs + 1
    /\ UNCHANGED <<run_script, stage, acquired, written, country_failed, notRunVars>>

\* the stage's loop is over (it may have had nothing to fetch)
RunStageEnd ==
    /\ stage \in LimitedStages \cup PeeringStages
    /\ ~acquired
    /\ stage' = NextStage(run_script, stage)
    /\ reqs' = 0
    /\ UNCHANGED <<run_script, acquired, log, written, country_failed, notRunVars>>

\* an exception leaves fetch_announced_prefixes or fetch_bgp_routes and
\* ends the run in the handler of lines 1377-1381
RunRaise ==
    /\ stage \in {"prefixes", "routes"}
    /\ ~acquired
    /\ reqs > 0
    /\ stage' = "exit"
    /\ UNCHANGED <<run_script, acquired, reqs, log, written, country_failed, notRunVars>>

\* the output files of the stage are opened for writing
RunSave ==
    /\ stage \in {"save_raw", "save"}
    /\ written' = written \cup FilesOf(run_script, stage)
    /\ stage' = NextStage(run_script, stage)
    /\ UNCHANGED <<run_script, acquired, reqs, log, country_failed, notRunVars>>

RunNext ==
    \/ \E ok, viz_exists \in BOOLEAN : RunCountry(ok, viz_exists)
    \/ RunAcquire
    \/ RunRequest
    \/ RunPeeringRequest
    \/ RunStageEnd
    \/ RunRaise
    \/ RunSave

SpecRun == InitRun /\ [][RunNext]_vars

\* C17: every request update_bgp_data.py issues, retries included, comes
\* after an acquire() on the shared RateLimiter that returned in the same
\* attempt.
C17_EveryRequestAcquires ==
    run_script \in {"update_bgp_data", "update_bgp_data --reprocess"} =>
        \A e \in log : e.acquired

\* C18: once the country-resource request has failed the run is over: no
\* other request has been issued and no output file has been written.
C18_CountryFailureIsFatal ==
    country_failed =>
        /\ stage = "exit"
        /\ \A e \in log : e.endpoint = "country"
        /\ written = {}

(***************************************************************************)
(* fetch_asn_info                                                          *)
(***************************************************************************)
\* fetch_asn_info is called: lines 489-505
InitAsnInfo ==
    /\ RateLimiterInit
    /\ country_asns \in InfoCountrySets
    /\ AnalyzerFresh
    /\ VizParked
    /\ PeerParked
    /\ FetchParked
    /\ PoolParked
    /\ RunParked
    /\ GeoParked
    /\ PersistParked
    /\ MainParked
    /\ ChunkParked
    /\ ReclassParked
    /\ asn_list \in SUBSET InfoAsns
    /\ existing_asn_names \in [InfoAsns -> {Absent, NoCountryKey, "", "US", "EU"}]
    /\ \A a \in InfoAsns : existing_asn_names[a] \in CacheValues(a)
    /\ need_fetch = {a \in asn_list : existing_asn_names[a] \in {Absent, NoCountryKey}}
    /\ results = existing_asn_names
    /\ info_pc = "fetch"

\* line 495: nothing to fetch, the cache is returned as it is
InfoAllCached ==
    /\ info_pc = "fetch"
    /\ need_fetch = {a \in asn_list : existing_asn_names[a] \in {Absent, NoCountryKey}}
    /\ need_fetch = {}
    /\ info_pc' = "cached"
    /\ UNCHANGED <<existing_asn_names, asn_list, need_fetch, results, notInfoVars>>

\* fetch_asn got an "ok" overview with this holder; line 571 stores it
InfoFetch(a, holder) ==
    /\ info_pc = "fetch"
    /\ a \in need_fetch
    /\ results' = [results EXCEPT
                      ![a] = IF a \in country_asns THEN "BD" ELSE HolderCountry(holder)]
    /\ need_fetch' = need_fetch \ {a}
    /\ UNCHANGED <<existing_asn_names, asn_list, info_pc, notInfoVars>>

\* fetch_asn returned the placeholder entry (status not ok, retries used
\* up, or another exception)
InfoFallback(a) ==
    /\ info_pc = "fetch"
    /\ a \in need_fetch
    /\ results' = [results EXCEPT ![a] = IF a \in country_asns THEN "BD" ELSE ""]
    /\ need_fetch' = need_fetch \ {a}
    /\ UNCHANGED <<existing_asn_names, asn_list, info_pc, notInfoVars>>

\* lines 583-585: every entry of an ASN of the country gets "BD"
InfoSetCountry ==
    /\ info_pc = "fetch"
    /\ need_fetch = {}
    /\ \E a \in asn_list : existing_asn_names[a] \in {Absent, NoCountryKey}
    /\ results' = [a \in InfoAsns |->
                      IF a \in country_asns /\ results[a] # Absent THEN "BD"
                      ELSE results[a]]
    /\ info_pc' = "override"
    /\ UNCHANGED <<existing_asn_names, asn_list, need_fetch, notInfoVars>>

\* the override applied to every entry of the table, whatever its country
NeedsOverrideAnyCountry(res, a) ==
    /\ a \in DOMAIN WELL_KNOWN_COUNTRIES
    /\ res[a] # Absent

\* lines 596-598: the entry exists and its country is empty or a region code
NeedsOverride(res, a) ==
    /\ a \in DOMAIN WELL_KNOWN_COUNTRIES
    /\ res[a] # Absent
    /\ \/ CountryOf(res, a) = ""
       \/ CountryOf(res, a) \in INVALID_REGIONS

\* lines 595-599: the well-known table fills in a country that is empty or
\* a region code
InfoOverride ==
    /\ info_pc = "override"
    /\ results' = [a \in InfoAsns |->
                      IF NeedsOverride(results, a)
                        THEN WELL_KNOWN_COUNTRIES[a]
                        ELSE results[a]]
    /\ info_pc' = "done"
    /\ UNCHANGED <<existing_asn_names, asn_list, need_fetch, notInfoVars>>

AsnInfoNext ==
    \/ InfoAllCached
    \/ \E a \in InfoAsns, holder \in Holders : InfoFetch(a, holder)
    \/ \E a \in InfoAsns : InfoFallback(a)
    \/ InfoSetCountry
    \/ InfoOverride

SpecAsnInfo == InitAsnInfo /\ [][AsnInfoNext]_vars

\* C19: when fetch_asn_info has done its fetch and override steps, no entry
\* of the result has one of the region codes AP, EU, AS, AF, LA, NA, OC, AN
\* as its country.
C19_NoRegionCodeAsCountry ==
    info_pc = "done" => \A a \in InfoAsns : results[a] \notin INVALID_REGIONS

\* C32: the well-known-country override step changes an entry only if the
\* ASN is in the override table and the entry's country is empty or one of
\* the invalid region codes; an entry with a non-empty valid country, and an
\* entry of an ASN outside the table, is left as it was.
C32_OverrideFrame ==
    [][(info_pc = "override" /\ info_pc' = "done") =>
          \A a \in InfoAsns :
              results'[a] # results[a] =>
                  /\ a \in DOMAIN WELL_KNOWN_COUNTRIES
                  /\ CountryOf(results, a) \in INVALID_REGIONS \cup {""}]_vars

\* the step has run on a table entry it filled in, on a table entry with a
\* valid country, and on an empty entry outside the table
C32_Witness ==
    /\ info_pc = "done"
    /\ existing_asn_names["174"] = "" /\ results["174"] = "US"
    /\ existing_asn_names["9002"] = "US" /\ results["9002"] = "US"
    /\ existing_asn_names["64500"] = "" /\ results["64500"] = ""

(***************************************************************************)
(* determine_peering_location                                              *)
(***************************************************************************)
\* the upstream lists: the neighbours in some order, none twice
UpstreamLists == {ups \in SeqsUpTo(UpstreamAsns, Cardinality(UpstreamAsns)) :
                     \A i, j \in 1..Len(ups) : i # j => ups[i] # ups[j]}

\* fetch_peering_locations calls determine_peering_location for a target
\* with what PeeringDB returned and the target's geolocation ("" for None)
InitPeering ==
    /\ RateLimiterInit
    /\ country_asns = {}
    /\ AnalyzerFresh
    /\ VizParked
    /\ FetchParked
    /\ PoolParked
    /\ RunParked
    /\ InfoParked
    /\ GeoParked
    /\ PersistParked
    /\ MainParked
    /\ ChunkParked
    /\ ReclassParked
    /\ upstream_asns \in UpstreamLists
    /\ geo_dominant \in {"", "BD", "SG", "IN"}
    /\ pdb_cache \in [{TargetAsn} \cup UpstreamAsns -> NetRecords \cup {NoNet}]
    /\ peering = NoLocation
    /\ peer_pc = "call"

\* line 973: peering = determine_peering_location(...)
DeterminePeering ==
    /\ peer_pc = "call"
    /\ peering' \in determine_peering_location(TargetAsn, upstream_asns, geo_dominant,
                                               pdb_cache)
    /\ peer_pc' = "done"
    /\ UNCHANGED <<upstream_asns, geo_dominant, pdb_cache, notPeerVars>>

PeeringNext == DeterminePeering

SpecPeering == InitPeering /\ [][PeeringNext]_vars

\* the non-home countries of an ASN's own record, with their weights
OwnCountries(a) ==
    IF pdb_cache[a].present THEN NonHome(analyze_peering_from_peeringdb(pdb_cache[a]))
    ELSE <<>>

\* the countries found in the records of at least two upstream neighbours
CommonToUpstreams ==
    {c \in {"SG", "IN"} :
        \E i, j \in 1..Len(upstream_asns) :
            /\ i # j
            /\ c \in Keys(OwnCountries(upstream_asns[i]))
            /\ c \in Keys(OwnCountries(upstream_asns[j]))}

\* C20: determine_peering_location returns the target's own heaviest
\* non-home country if it has one; otherwise a country common to the
\* records of at least two upstream neighbours if there is one; otherwise
\* the geolocation's dominant country if that is not the home country;
\* otherwise nothing.
C20_PeeringPriority ==
    peer_pc = "done" =>
        IF OwnCountries(TargetAsn) # <<>>
          THEN /\ peering.country \in Keys(OwnCountries(TargetAsn))
               /\ \A c \in Keys(OwnCountries(TargetAsn)) :
                      WeightIn(OwnCountries(TargetAsn), c)
                          <= WeightIn(OwnCountries(TargetAsn), peering.country)
        ELSE IF CommonToUpstreams # {}
          THEN peering.country \in CommonToUpstreams
        ELSE IF geo_dominant \notin {"", Home}
          THEN peering = Location(geo_dominant, "fallback-geo")
        ELSE peering = NoLocation

\* the records of the target and of its upstream neighbours name no country
\* but the home country, and neither does the geolocation
OnlyHomeAvailable ==
    /\ OwnCountries(TargetAsn) = <<>>
    /\ \A k \in 1..Len(upstream_asns) : OwnCountries(upstream_asns[k]) = <<>>
    /\ geo_dominant \in {"", Home}

\* C36: every peering location that determine_peering_location returns names
\* a country other than the home country, on each of its return paths (own
\* record, upstream intersection, highest-weighted upstream, geolocation
\* fallback); when nothing but the home country is available it returns no
\* location.
C36_LocationNeverHome ==
    peer_pc = "done" =>
        /\ peering # NoLocation =>
              /\ peering.country \notin {Home, ""}
              /\ peering.source \in {"peeringdb", "peeringdb-upstream", "fallback-geo"}
        /\ OnlyHomeAvailable => peering = NoLocation

\* a location taken from the upstream neighbours, one of which has a record
\* that names the home country too, for a target whose own record names
\* the home country only
C36_Witness ==
    /\ peer_pc = "done"
    /\ peering.source = "peeringdb-upstream"
    /\ pdb_cache[TargetAsn] = Net(<<"BD">>, <<>>)
    /\ \E k \in 1..Len(upstream_asns) :
          Home \in Keys(analyze_peering_from_peeringdb(pdb_cache[upstream_asns[k]]))
    /\ geo_dominant = Home

(***************************************************************************)
(* fetch_geo_country                                                       *)
(***************************************************************************)
\* fetch_geo_countries calls fetch_geo_country for an ASN; the request will
\* have one of the outcomes, a body with status "ok" carries locations
InitGeo ==
    /\ RateLimiterInit
    /\ country_asns = {}
    /\ AnalyzerFresh
    /\ VizParked
    /\ FetchParked
    /\ PoolParked
    /\ RunParked
    /\ InfoParked
    /\ PeerParked
    /\ PersistParked
    /\ MainParked
    /\ ChunkParked
    /\ ReclassParked
    /\ geo_outcome \in GeoOutcomes
    /\ geo_locations \in IF geo_outcome = "ok" THEN GeoLocations ELSE {<<>>}
    /\ geo_data = GeoFallback
    /\ geo_pc = "call"

\* lines 623-684: the request is answered and fetch_geo_country returns
FetchGeoCountry ==
    /\ geo_pc = "call"
    /\ geo_data' = GeoResult(geo_outcome, geo_locations)
    /\ geo_pc' = "done"
    /\ UNCHANGED <<geo_outcome, geo_locations, notGeoVars>>

GeoNext == FetchGeoCountry

SpecGeo == InitGeo /\ [][GeoNext]_vars

\* the summed coverage of a country in the response
CoverageOf(cc) == SumPct(SelectSeq(geo_locations, LAMBDA l : l.country = cc))

\* the summed coverage of all locations with a country
LocatedCoverage == SumPct(SelectSeq(geo_locations, LAMBDA l : l.country # ""))

InitPersist ==
    /\ RateLimiterInit
    /\ country_asns = {}
    /\ AnalyzerFresh
    /\ VizParked
    /\ FetchParked
    /\ PoolParked
    /\ RunParked
    /\ InfoParked
    /\ PeerParked
    /\ GeoParked
    /\ MainParked
    /\ ChunkParked
    /\ ReclassParked
    /\ disk \in [OutputFiles -> {"absent", "previous"}]
    /\ n_records \in 0..MaxRecords
    /\ raw_records = 0
    /\ raw_newline = TRUE
    /\ file_k = 1
    /\ chunks = 0
    /\ classified = FALSE
    /\ persist_pc = "fetch"

\* lines 1181-1225: country resources, prefixes, routes, deduplication
PersistFetch ==
    /\ persist_pc = "fetch"
    /\ persist_pc' = "raw_open"
    /\ UNCHANGED <<disk, n_records, raw_records, raw_newline, file_k, chunks, classified,
                   notPersistVars>>

\* line 1228: open(out_raw, "wb") truncates the store
RawOpen ==
    /\ persist_pc = "raw_open"
    /\ disk' = [disk EXCEPT ![RawFile] = "truncated"]
    /\ raw_records' = 0
    /\ raw_newline' = TRUE
    /\ persist_pc' = "raw_write"
    /\ UNCHANGED <<n_records, file_k, chunks, classified, notPersistVars>>

\* line 1230: f.write(fast_json_dumps(rt)), one whole record
RawWriteRecord ==
    /\ persist_pc = "raw_write"
    /\ raw_newline
    /\ raw_records < n_records
    /\ raw_records' = raw_records + 1
    /\ raw_newline' = FALSE
    /\ disk' = [disk EXCEPT ![RawFile] = "partial"]
    /\ UNCHANGED <<n_records, file_k, chunks, classified, persist_pc, notPersistVars>>

\* line 1231: f.write(b"\n")
RawWriteNewline ==
    /\ persist_pc = "raw_write"
    /\ ~raw_newline
    /\ raw_newline' = TRUE
    /\ UNCHANGED <<disk, n_records, raw_records, file_k, chunks, classified, persist_pc,
                   notPersistVars>>

\* lines 1229-1232: the loop ends and the with block closes the store
RawClose ==
    /\ persist_pc = "raw_write"
    /\ raw_newline
    /\ raw_records = n_records
    /\ disk' = [disk EXCEPT ![RawFile] = "complete"]
    /\ persist_pc' = "classify"
    /\ UNCHANGED <<n_records, raw_records, raw_newline, file_k, chunks, classified,
                   notPersistVars>>

\* lines 1242-1282: analysis, ASN info, geolocation, peering locations and
\* build_viz_data
Classify ==
    /\ persist_pc = "classify"
    /\ classified' = TRUE
    /\ file_k' = 1
    /\ persist_pc' = "json_open"
    /\ UNCHANGED <<disk, n_records, raw_records, raw_newline, chunks, notPersistVars>>

\* lines 1286, 1290, 1307: open(out, "w") truncates the file
JsonOpen ==
    /\ persist_pc = "json_open"
    /\ disk' = [disk EXCEPT ![DerivedFiles[file_k]] = "truncated"]
    /\ chunks' = 0
    /\ persist_pc' = "json_dump"
    /\ UNCHANGED <<n_records, raw_records, raw_newline, file_k, classified, notPersistVars>>

\* lines 1287, 1291, 1308: json.dump writes the document to the file chunk
\* by chunk
JsonDumpChunk ==
    /\ persist_pc = "json_dump"
    /\ chunks < JsonChunks
    /\ chunks' = chunks + 1
    /\ disk' = [disk EXCEPT ![DerivedFiles[file_k]] = "partial"]
    /\ UNCHANGED <<n_records, raw_records, raw_newline, file_k, classified, persist_pc,
                   notPersistVars>>

\* json.dump returns and the with block closes the file
JsonClose ==
    /\ persist_pc = "json_dump"
    /\ chunks = JsonChunks
    /\ disk' = [disk EXCEPT ![DerivedFiles[file_k]] = "complete"]
    /\ IF file_k < Len(DerivedFiles)
         THEN file_k' = file_k + 1 /\ persist_pc' = "json_open"
         ELSE file_k' = file_k /\ persist_pc' = "summary"
    /\ UNCHANGED <<n_records, raw_records, raw_newline, chunks, classified, notPersistVars>>

\* lines 1310-1368: the summary is printed and main() returns
PersistSummary ==
    /\ persist_pc = "summary"
    /\ persist_pc' = "done"
    /\ UNCHANGED <<disk, n_records, raw_records, raw_newline, file_k, chunks, classified,
                   notPersistVars>>

\* lines 1371-1376: KeyboardInterrupt is raised at the current statement, an
\* open with block closes its file with what was written so far, the handler
\* prints "Aborted by user." and exits
Interrupt ==
    /\ persist_pc \notin {"done", "aborted"}
    /\ persist_pc' = "aborted"
    /\ UNCHANGED <<disk, n_records, raw_records, raw_newline, file_k, chunks, classified,
                   notPersistVars>>

PersistNext ==
    \/ PersistFetch
    \/ RawOpen
    \/ RawWriteRecord
    \/ RawWriteNewline
    \/ RawClose
    \/ Classify
    \/ JsonOpen
    \/ JsonDumpChunk
    \/ JsonClose
    \/ PersistSummary
    \/ Interrupt

SpecPersist == InitPersist /\ [][PersistNext]_vars

\* C24: when the process is interrupted, each of the three derived files
\* holds its previous content or its complete new content and the
\* record-per-line store holds its previous content, its new content or
\* complete lines only; a derived file is written only after the
\* classification has completed.
C24_NoPartialFileOnInterrupt ==
    /\ persist_pc = "aborted" =>
          /\ \A k \in 1..Len(DerivedFiles) :
                disk[DerivedFiles[k]] \in {"absent", "previous", "complete"}
          /\ disk[RawFile] \in {"absent", "previous", "complete"} \/ raw_newline
    /\ \A k \in 1..Len(DerivedFiles) :
          disk[DerivedFiles[k]] \notin {"absent", "previous"} => classified

(***************************************************************************)
(* main(): deduplication, analysis, geolocation selection, graph           *)
(***************************************************************************)
\* the cut-off of the geolocation selection (1000 in the program)
TopGeo == 1

\* lines 1202-1209: the key of the deduplication pass
DedupKey(rt) == <<rt.target_prefix, CleanPath(rt.path)>>

\* lines 1201-1214: dedup_map keeps the first record of every key, in the
\* order the keys were first met
RECURSIVE DedupFrom(_, _, _)
DedupFrom(rts, k, kept) ==
    IF k > Len(rts) THEN kept
    ELSE DedupFrom(rts, k + 1,
                   IF \E i \in 1..Len(kept) : DedupKey(kept[i]) = DedupKey(rts[k])
                     THEN kept
                     ELSE Append(kept, rts[k]))

\* dedup_counts[key]
DedupCount(rts, key) == Cardinality({i \in 1..Len(rts) : DedupKey(rts[i]) = key})

\* lines 1197-1219: deduped_routes, every record with its _count
Dedup(rts) ==
    LET kept == DedupFrom(rts, 1, <<>>)
    IN  [i \in 1..Len(kept) |->
            [target_prefix |-> kept[i].target_prefix,
             source_id |-> kept[i].source_id,
             path |-> kept[i].path,
             _count |-> DedupCount(rts, DedupKey(kept[i]))]]

\* lines 1252-1256: the in-country, unlicensed gateways of the given edges
TentativeGateways(ranked) ==
    {ranked[i][1][2] : i \in {j \in 1..Len(ranked) :
                                /\ ranked[j][1][2] \in country_asns
                                /\ ranked[j][1][2] \notin btrc_licensed_asns}}

\* the state main() does not touch in its own steps
mainOtherVars == <<rlVars, anVars, fetchVars, poolVars, runVars, infoVars, peerVars,
                   geoVars, persistVars, chunkVars, reclassVars>>

\* main() has the fetched records: one observation per collector, with a
\* fresh ASN table and some license registry
InitMain ==
    /\ RateLimiterInit
    /\ country_asns \in CountrySets
    /\ AnalyzerFresh
    /\ analysis = FinalizeAnalysis(FreshAccumulators, {})
    /\ asn_info = [a \in Asns |-> ""]
    /\ btrc_licensed_asns \in SUBSET Asns
    /\ VizFresh
    /\ FetchParked
    /\ PoolParked
    /\ RunParked
    /\ InfoParked
    /\ PeerParked
    /\ GeoParked
    /\ PersistParked
    /\ ChunkParked
    /\ ReclassParked
    /\ \E paths \in SeqsUpTo(VizPaths, MaxObservations) :
          fetched_routes = Observations(paths)
    /\ deduped_routes = <<>>
    /\ intl_ranking = <<>>
    /\ tentative_iig_asns = {}
    /\ main_step = "dedup"

\* lines 1197-1222: the deduplication pass
MainDedup ==
    /\ main_step = "dedup"
    /\ deduped_routes' = Dedup(fetched_routes)
    /\ main_step' = "analyze"
    /\ UNCHANGED <<fetched_routes, intl_ranking, tentative_iig_asns, vizVars, mainOtherVars>>

\* line 1242: analysis = analyze_routes(deduped_routes, country_asns); the
\* order in which the Counter ranks equal counts is fixed from here on
MainAnalyze ==
    /\ main_step = "analyze"
    /\ analysis' = AnalyzeRoutes(deduped_routes, country_asns)
    /\ intl_ranking' \in MostCommon(analysis'.edge_intl, Cardinality(Asns \X Asns))
    /\ main_step' = "select"
    /\ UNCHANGED <<fetched_routes, deduped_routes, tentative_iig_asns, asn_info,
                   btrc_licensed_asns, top_intl_edges, top_domestic_edges,
                   iigs_with_domestic, node_map, edges, viz_pc, mainOtherVars>>

\* lines 1250-1256: the gateways of the most frequent international edges
\* that are registered in the country and hold no license
MainSelectGeo ==
    /\ main_step = "select"
    /\ tentative_iig_asns' =
          TentativeGateways(SubSeq(intl_ranking, 1, Min(TopGeo, Len(intl_ranking))))
    /\ main_step' = "geo"
    /\ UNCHANGED <<fetched_routes, deduped_routes, intl_ranking, vizVars, mainOtherVars>>

\* lines 1258-1272: fetch_geo_countries returns a dominant country for
\* every ASN it is given, and main() stores it in the ASN table
MainGeoMerge ==
    /\ main_step = "geo"
    /\ \E geo_results \in [tentative_iig_asns -> {"BD", "SG"}] :
          asn_info' = [a \in Asns |->
                         IF a \in tentative_iig_asns THEN geo_results[a] ELSE asn_info[a]]
    /\ main_step' = "build"
    /\ UNCHANGED <<fetched_routes, deduped_routes, intl_ranking, tentative_iig_asns,
                   analysis, btrc_licensed_asns, top_intl_edges, top_domestic_edges,
                   iigs_with_domestic, node_map, edges, viz_pc, mainOtherVars>>

\* line 1283: build_viz_data is entered; its most_common(1500) ranks the
\* same Counter, so its selection starts with the edges ranked before
MainBuildVizData ==
    /\ main_step = "build"
    /\ VizSelect
    /\ top_intl_edges' = SubSeq(intl_ranking, 1, Len(top_intl_edges'))

MainNext ==
    \/ MainDedup
    \/ MainAnalyze
    \/ MainSelectGeo
    \/ MainGeoMerge
    \/ MainBuildVizData
    \/ VizIntlEdge
    \/ VizIntlEnd
    \/ VizDomesticEdge
    \/ VizFinish

SpecMain == InitMain /\ [][MainNext]_vars

\* C38: the deduplication pass of main() does not change the analysis: for
\* every list of fetched records, analyze_routes on the deduplicated list
\* returns the same valid_obs and the same international and domestic edge
\* counts as analyze_routes on the original list.
C38_DedupKeepsAnalysis ==
    main_step \notin {"dedup", "analyze"} =>
        LET original == AnalyzeRoutes(fetched_routes, country_asns)
        IN  /\ analysis.valid_obs = original.valid_obs
            /\ analysis.edge_intl = original.edge_intl
            /\ analysis.edge_domestic = original.edge_domestic

\* C31: every in-country, non-licensed ASN that build_viz_data finalizes
\* from the tentative-gateway role had its geolocation queried before the
\* classification, whichever selected international or domestic edge it is
\* the gateway of.
C31_TentativeGatewaysLocated ==
    viz_pc = "done" =>
        \A i \in 1..Len(node_map) :
            (/\ CreatedAsTentativeGateway(node_map[i].asn)
             /\ node_map[i].asn \in country_asns
             /\ node_map[i].asn \notin btrc_licensed_asns)
                => node_map[i].asn \in tentative_iig_asns

(***************************************************************************)
(* chunk_prefixes                                                          *)
(***************************************************************************)
\* max_len (1800 in the program), and the longest list that is split
ChunkMaxLen == 4
MaxPrefixes == 4

\* the prefixes of the model, as their characters: three that fit in a
\* chunk and one that is longer than any max_len tried
PrefixTexts ==
    { <<"a">>, <<"b", "b">>, <<"c", "c", "c">>,
      <<"d", "d", "d", "d", "d", "d", "d">> }

\* ",".join(ch)
RECURSIVE Join(_)
Join(ch) ==
    IF ch = <<>> THEN <<>>
    ELSE IF Len(ch) = 1 THEN ch[1]
    ELSE ch[1] \o <<",">> \o Join(Tail(ch))

\* the chunks put one after the other
RECURSIVE Flatten(_)
Flatten(chs) == IF chs = <<>> THEN <<>> ELSE chs[1] \o Flatten(Tail(chs))

\* an add_len that forgets the comma
AddLenNoComma(prefix, ch) == Len(prefix)

\* line 205: add_len = len(prefix) + (1 if chunk else 0)
AddLen(prefix, ch) == Len(prefix) + (IF ch # <<>> THEN 1 ELSE 0)

\* chunk_prefixes is called with a list of prefixes
InitChunk ==
    /\ RateLimiterInit
    /\ country_asns = {}
    /\ AnalyzerFresh
    /\ VizParked
    /\ FetchParked
    /\ PoolParked
    /\ RunParked
    /\ InfoParked
    /\ PeerParked
    /\ GeoParked
    /\ PersistParked
    /\ MainParked
    /\ ReclassParked
    /\ prefixes \in SeqsUpTo(PrefixTexts, MaxPrefixes)
    /\ prefix_chunks = <<>>
    /\ chunk = <<>>
    /\ current_len = 0
    /\ prefix_i = 0
    /\ chunk_pc = "loop"

\* lines 204-213: one iteration of the loop over the prefixes
ChunkPrefix ==
    /\ chunk_pc = "loop"
    /\ prefix_i < Len(prefixes)
    /\ LET prefix == prefixes[prefix_i + 1]
           add_len == AddLen(prefix, chunk)
       IN  IF current_len + add_len > ChunkMaxLen /\ chunk # <<>>
             THEN /\ prefix_chunks' = Append(prefix_chunks, chunk)
                  /\ chunk' = <<prefix>>
                  /\ current_len' = Len(prefix)
             ELSE /\ prefix_chunks' = prefix_chunks
                  /\ chunk' = Append(chunk, prefix)
                  /\ current_len' = current_len + add_len
    /\ prefix_i' = prefix_i + 1
    /\ UNCHANGED <<prefixes, chunk_pc, notChunkVars>>

\* lines 215-218: the last chunk is added if it holds anything, and the
\* chunks are returned
ChunkReturn ==
    /\ chunk_pc = "loop"
    /\ prefix_i = Len(prefixes)
    /\ prefix_chunks' = IF chunk # <<>> THEN Append(prefix_chunks, chunk) ELSE prefix_chunks
    /\ chunk_pc' = "done"
    /\ UNCHANGED <<prefixes, chunk, current_len, prefix_i, notChunkVars>>

ChunkNext ==
    \/ ChunkPrefix
    \/ ChunkReturn

SpecChunk == InitChunk /\ [][ChunkNext]_vars

\* C33: chunk_prefixes partitions its input: the chunks put one after the
\* other are the input list (no prefix lost, duplicated or reordered), no
\* chunk is empty, and the comma-joined length of every chunk is at most
\* max_len except for a chunk made of a single prefix that is itself longer
\* than max_len.
C33_ChunksPartitionInput ==
    chunk_pc = "done" =>
        /\ Flatten(prefix_chunks) = prefixes
        /\ \A k \in 1..Len(prefix_chunks) :
              /\ prefix_chunks[k] # <<>>
              /\ \/ Len(Join(prefix_chunks[k])) <= ChunkMaxLen
                 \/ /\ Len(prefix_chunks[k]) = 1
                    /\ Len(prefix_chunks[k][1]) > ChunkMaxLen

\* a returned split with a chunk that is filled to max_len exactly by two
\* prefixes and their comma, and a chunk that is one over-long prefix
C33_Witness ==
    /\ chunk_pc = "done"
    /\ \E k, l \in 1..Len(prefix_chunks) :
          /\ Len(prefix_chunks[k]) = 2
          /\ Len(Join(prefix_chunks[k])) = ChunkMaxLen
          /\ Len(prefix_chunks[l]) = 1
          /\ Len(prefix_chunks[l][1]) > ChunkMaxLen

(***************************************************************************)
(* reclassify_iigs.py                                                      *)
(***************************************************************************)
\* the nodes of the graph on disk, in file order, and the roles an old
\* three-layer graph gives them
GraphAsns == <<"100", "200">>
OldTypes == {"outside", "iig", "local-company"}

\* the keys the result counter is created with (line 57)
ResultKeys == {"iig", "detected-iig", "offshore-enterprise", "demoted"}

\* the keys the report reads (lines 87-90)
ReportedKeys == {"iig", "detected-iig", "offshore-peer", "demoted"}

\* lines 73-84: the role of a former 'iig' node and the result it counts as
Reclassify(asn) ==
    LET detected_country == asn_names[asn]
        is_bd_registered == asn \in country_asns
    IN  IF asn \in btrc_licensed_asns
          THEN [type |-> "iig", result |-> "iig"]
        ELSE IF is_bd_registered /\ detected_country # "" /\ detected_country # "BD"
          THEN [type |-> "offshore-enterprise", result |-> "offshore-enterprise"]
        ELSE IF asn \in iigs_with_domestic
          THEN [type |-> "detected-iig", result |-> "detected-iig"]
        ELSE [type |-> "local-company", result |-> "demoted"]

\* lines 22-54: the three files are loaded; country_asns are the ASNs whose
\* country is BD, iigs_with_domestic the targets of the domestic edges
InitReclassify ==
    /\ RateLimiterInit
    /\ AnalyzerFresh
    /\ analysis = FinalizeAnalysis(FreshAccumulators, {})
    /\ asn_info = [a \in Asns |-> ""]
    /\ top_intl_edges = <<>>
    /\ top_domestic_edges = <<>>
    /\ node_map = <<>>
    /\ edges = <<>>
    /\ viz_pc = "start"
    /\ FetchParked
    /\ PoolParked
    /\ RunParked
    /\ InfoParked
    /\ PeerParked
    /\ GeoParked
    /\ PersistParked
    /\ MainParked
    /\ ChunkParked
    /\ \E types \in [1..Len(GraphAsns) -> OldTypes] :
          viz_data = [i \in 1..Len(GraphAsns) |->
                         [asn |-> GraphAsns[i], type |-> types[i], licensed |-> FALSE]]
    /\ asn_names \in [{GraphAsns[i] : i \in 1..Len(GraphAsns)} -> {"", "BD", "SG"}]
    /\ country_asns = {a \in DOMAIN asn_names : asn_names[a] = "BD"}
    /\ btrc_licensed_asns \in SUBSET {GraphAsns[i] : i \in 1..Len(GraphAsns)}
    /\ iigs_with_domestic \in SUBSET {GraphAsns[i] : i \in 1..Len(GraphAsns)}
    /\ reclassified = [k \in ResultKeys |-> 0]
    /\ node_i = 0
    /\ reclass_pc = "loop"

\* lines 58-84: one iteration of the loop over the nodes
ReclassifyNode ==
    /\ reclass_pc = "loop"
    /\ node_i < Len(viz_data)
    /\ LET node == viz_data[node_i + 1]
           asn == node.asn
           new == Reclassify(asn)
       IN  IF node.type # "iig"
             THEN /\ viz_data' = [viz_data EXCEPT
                                     ![node_i + 1].licensed = asn \in btrc_licensed_asns]
                  /\ reclassified' = reclassified
             ELSE /\ viz_data' = [viz_data EXCEPT
                                     ![node_i + 1].licensed = asn \in btrc_licensed_asns,
                                     ![node_i + 1].type = new.type]
                  /\ reclassified' = [reclassified EXCEPT ![new.result] = @ + 1]
    /\ node_i' = node_i + 1
    /\ UNCHANGED <<asn_names, reclass_pc, notReclassVars>>

\* lines 86-90: the report reads four keys of the result counter; a key the
\* counter does not have raises KeyError, which ends the script before the
\* ranking (93-104), the statistics (107-119) and the two saves (122-141)
ReclassifyReport ==
    /\ reclass_pc = "loop"
    /\ node_i = Len(viz_data)
    /\ reclass_pc' = IF ReportedKeys \subseteq DOMAIN reclassified THEN "rank" ELSE "KeyError"
    /\ UNCHANGED <<viz_data, asn_names, reclassified, node_i, notReclassVars>>

ReclassifyNext ==
    \/ ReclassifyNode
    \/ ReclassifyReport

SpecReclassify == InitReclassify /\ [][ReclassifyNext]_vars

\* C40: for every existing graph, ASN table and license list the script
\* runs to completion: after it has reclassified every former 'iig' node
\* into exactly one role it goes on to the save step, without entering an
\* error state on the way (its result-reporting step included).
C40_NoErrorBeforeSave ==
    /\ reclass_pc # "KeyError"
    /\ node_i = Len(viz_data) =>
          \A i \in 1..Len(viz_data) :
              viz_data[i].type \in {"outside", "iig", "detected-iig", "offshore-enterprise",
                                    "local-company"}

====
